---- MODULE Spec2Model ----
(***************************************************************************)
(* A model of the walmart-importer extraction engine.                      *)
(*                                                                         *)
(* Strings are sequences of one-character strings, so that the character   *)
(* level work of the code (strip, re.sub, startswith, regular expressions, *)
(* percent-decoding) is computed and not assumed.                          *)
(*                                                                         *)
(* Python floats are modelled by Num records: a finite decimal             *)
(* mant * 10^exp with a sign (so -0.0 exists), the two infinities, and nan.*)
(* Binary rounding is not modelled; overflow to inf is.                    *)
(***************************************************************************)
EXTENDS Integers, Sequences, FiniteSets, TLC

VARIABLES
    mtf_value,      \* money_to_float: the argument `value`
    mtf_result,     \* money_to_float: the value returned, or NotCalled
    page_phrases,   \* parse_order_page: the phrases of the page's visible text
    parse_args,     \* parse_order_page: the arguments order_no and url
    parse_pc,       \* parse_order_page: "start" before the call, "done" after
    parse_result,   \* parse_order_page: the OrderSummary returned
    dec_s,          \* _decode_candidates: the argument `s`
    dec_pc,         \* _decode_candidates: "start" before the call, "done" after
    dec_variants,   \* _decode_candidates: the list returned
    unw_s,          \* _extract_urls_from_safelinks: the argument `s`
    unw_pc,         \* _extract_urls_from_safelinks: "start" or "done"
    unw_out,        \* _extract_urls_from_safelinks: the list returned
    ext_items,      \* extract_order_numbers_from_items: the messages
    ext_subject_exact, \* extract_order_numbers_from_items: the subject filter
    ext_pc,         \* extract_order_numbers_from_items: "start" or "done"
    ext_numbers,    \* extract_order_numbers_from_items: the list returned
    wof_summary,    \* _write_order_files: the argument `order_summary`
    wof_pc,         \* _write_order_files: "start" before the call, "done" after
    wof_file,       \* _write_order_files: the path and the text written
    fo_order_numbers, \* fetch_orders: the argument `order_numbers`
    fo_idx,         \* fetch_orders: idx, the number of the order at hand
    fo_pc,          \* fetch_orders: the statement to run next
    fo_log,         \* fetch_orders: what was done so far, in order
    fo_files,       \* fetch_orders: the files written, each a path and a text
    fo_html,        \* fetch_orders: html, the content of the page at hand
    fo_summary,     \* fetch_orders: order_summary
    rp_period,      \* run_pipeline: the argument `period`
    rp_env,         \* run_pipeline: what the folder holds for the period
    rp_order_numbers, \* run_pipeline: order_numbers
    rp_pc,          \* run_pipeline: the statement to run next
    rp_log,         \* run_pipeline: the stages run so far, in order
    rp_exit,        \* run_pipeline: the exit status of the process
    pp_period,      \* _parse_period: the argument `period`
    pp_pc,          \* _parse_period: "start" before the calls, "done" after
    pp_result,      \* _parse_period of the importer: what the call gave
    pp_reference    \* _parse_period of the reference: what the call gave

moneyVars == <<mtf_value, mtf_result>>
parseVars == <<page_phrases, parse_args, parse_pc, parse_result>>
decodeVars == <<dec_s, dec_pc, dec_variants>>
unwrapVars == <<unw_s, unw_pc, unw_out>>
extractVars == <<ext_items, ext_subject_exact, ext_pc, ext_numbers>>
writeVars == <<wof_summary, wof_pc, wof_file>>
fetchVars == <<fo_order_numbers, fo_idx, fo_pc, fo_log, fo_files, fo_html, fo_summary>>
pipelineVars == <<rp_period, rp_env, rp_order_numbers, rp_pc, rp_log, rp_exit>>
periodVars == <<pp_period, pp_pc, pp_result, pp_reference>>
vars ==
    <<moneyVars, parseVars, decodeVars, unwrapVars, extractVars, writeVars, fetchVars,
      pipelineVars, periodVars>>


(***************************************************************************)
(* Characters and strings                                                  *)
(***************************************************************************)
Digits == {"0", "1", "2", "3", "4", "5", "6", "7", "8", "9"}

DigitVal(c) ==
    CASE c = "0" -> 0 [] c = "1" -> 1 [] c = "2" -> 2 [] c = "3" -> 3
      [] c = "4" -> 4 [] c = "5" -> 5 [] c = "6" -> 6 [] c = "7" -> 7
      [] c = "8" -> 8 [] c = "9" -> 9

\* Python's str.isspace / the regex class \s, on the characters of the model.
\* "\n" is a line break, "\t" a tab, "nbsp" stands for U+00A0.
Whitespace == {" ", "\t", "\n", "nbsp"}

IsSpace(c) == c \in Whitespace

Min(a, b) == IF a <= b THEN a ELSE b

RECURSIVE Pow10(_)
Pow10(n) == IF n = 0 THEN 1 ELSE 10 * Pow10(n - 1)

\* s[from..] (1-based), the empty string when from is past the end.
Drop(s, from) == SubSeq(s, from, Len(s))

\* s.startswith(p) at position i (1-based): p occurs in s starting at i.
StartsWithAt(s, i, p) ==
    /\ i >= 1
    /\ i + Len(p) - 1 <= Len(s)
    /\ (p # <<>> => s[i] = p[1])
    /\ \A k \in 2..Len(p) : s[i + k - 1] = p[k]

RECURSIVE ConcatFrom(_, _)
ConcatFrom(parts, k) ==
    IF k > Len(parts) THEN <<>> ELSE parts[k] \o ConcatFrom(parts, k + 1)

\* The concatenation of a sequence of strings.
Concat(parts) == ConcatFrom(parts, 1)

\* The strings made of at most n tokens of T, as token sequences.
TokenSeqs(T, n) == UNION {[1..k -> T] : k \in 0..n}

RECURSIVE RemoveChars(_, _)
\* re.sub(r'[<set>]', '', s)
RemoveChars(s, set) ==
    IF s = <<>> THEN <<>>
    ELSE IF Head(s) \in set THEN RemoveChars(Tail(s), set)
    ELSE <<Head(s)>> \o RemoveChars(Tail(s), set)

RECURSIVE LStrip(_)
LStrip(s) == IF s # <<>> /\ IsSpace(Head(s)) THEN LStrip(Tail(s)) ELSE s

RECURSIVE RStrip(_)
RStrip(s) ==
    IF s # <<>> /\ IsSpace(s[Len(s)]) THEN RStrip(SubSeq(s, 1, Len(s) - 1)) ELSE s

\* str.strip()
Strip(s) == LStrip(RStrip(s))

(***************************************************************************)
(* Python floats                                                           *)
(***************************************************************************)
\* 10^308 is the largest power of ten a double holds (DBL_MAX_10_EXP) and
\* 10^-324 rounds to zero.
MaxDecimalExponent == 308
MinDecimalExponent == -324

Finite(neg, mant, exp) == [kind |-> "num", neg |-> neg, mant |-> mant, exp |-> exp]
Inf(neg) == [kind |-> "inf", neg |-> neg, mant |-> 0, exp |-> 0]
NaN == [kind |-> "nan", neg |-> FALSE, mant |-> 0, exp |-> 0]
Zero == Finite(FALSE, 0, 0)
\* The result of a function that has not been called yet.
NotCalled == [kind |-> "NotCalled", neg |-> FALSE, mant |-> 0, exp |-> 0]

RECURSIVE NumDigits(_)
NumDigits(n) == IF n < 10 THEN 1 ELSE 1 + NumDigits(n \div 10)

RECURSIVE Normal(_, _, _)
\* The canonical record of (-1)^neg * mant * 10^exp: no trailing zero in mant.
Normal(neg, mant, exp) ==
    IF mant = 0 THEN Finite(neg, 0, 0)
    ELSE IF mant % 10 = 0 THEN Normal(neg, mant \div 10, exp + 1)
    ELSE Finite(neg, mant, exp)

\* A canonical record brought into the range of a double: overflow gives an
\* infinity, underflow a zero.
Rounded(n) ==
    IF n.mant = 0 THEN n
    ELSE IF NumDigits(n.mant) + n.exp - 1 > MaxDecimalExponent THEN Inf(n.neg)
    ELSE IF NumDigits(n.mant) + n.exp - 1 < MinDecimalExponent THEN Finite(n.neg, 0, 0)
    ELSE n

\* The double nearest to (-1)^neg * mant * 10^exp, as far as the model goes.
MkFloat(neg, mant, exp) == Rounded(Normal(neg, mant, exp))

\* Unary minus.
Neg(x) == IF x.kind = "nan" THEN x ELSE [x EXCEPT !.neg = ~x.neg]

\* abs()
Abs(x) == IF x.kind = "nan" THEN x ELSE [x EXCEPT !.neg = FALSE]

\* Python's ==: nan equals nothing, -0.0 == 0.0.
NumEq(x, y) ==
    /\ x.kind # "nan"
    /\ y.kind # "nan"
    /\ \/ x = y
       \/ x.kind = "num" /\ y.kind = "num" /\ x.mant = 0 /\ y.mant = 0

IsFinite(x) == x.kind = "num"
IsPositive(x) ==
    \/ x.kind = "num" /\ x.mant > 0 /\ ~x.neg
    \/ x.kind = "inf" /\ ~x.neg
\* x <= 0
NonPositive(x) ==
    \/ x.kind = "num" /\ (x.mant = 0 \/ x.neg)
    \/ x.kind = "inf" /\ x.neg

AllDigits(s) == \A k \in 1..Len(s) : s[k] \in Digits

RECURSIVE NatOf(_)
\* The number a digit string denotes (0 for the empty string).
NatOf(s) ==
    IF s = <<>> THEN 0 ELSE 10 * NatOf(SubSeq(s, 1, Len(s) - 1)) + DigitVal(s[Len(s)])

\* The first position of a character of `set` in s, Len(s) + 1 when there is none.
FirstOf(s, set) ==
    IF \E k \in 1..Len(s) : s[k] \in set
    THEN CHOOSE k \in 1..Len(s) : s[k] \in set /\ \A j \in 1..(k - 1) : s[j] \notin set
    ELSE Len(s) + 1

UpperLetters ==
    <<"A", "B", "C", "D", "E", "F", "G", "H", "I", "J", "K", "L", "M",
      "N", "O", "P", "Q", "R", "S", "T", "U", "V", "W", "X", "Y", "Z">>
LowerLetters ==
    <<"a", "b", "c", "d", "e", "f", "g", "h", "i", "j", "k", "l", "m",
      "n", "o", "p", "q", "r", "s", "t", "u", "v", "w", "x", "y", "z">>
UpperSet == {UpperLetters[k] : k \in 1..26}
LowerSet == {LowerLetters[k] : k \in 1..26}
LowerMap == [c \in UpperSet |-> LowerLetters[CHOOSE k \in 1..26 : UpperLetters[k] = c]]

LowerChar(c) == IF c \in UpperSet THEN LowerMap[c] ELSE c

RECURSIVE LowerRange(_, _, _)
LowerRange(s, lo, hi) ==
    IF lo > hi THEN <<>>
    ELSE IF lo = hi THEN <<LowerChar(s[lo])>>
    ELSE LowerRange(s, lo, (lo + hi) \div 2) \o LowerRange(s, (lo + hi) \div 2 + 1, hi)

\* str.lower()
Lower(s) == LowerRange(s, 1, Len(s))

\* What float() raises on a string that is no number.
ValueError == [kind |-> "ValueError", neg |-> FALSE, mant |-> 0, exp |-> 0]

\* Whether s starts with a sign, and s without it.
HasSign(s) == s # <<>> /\ s[1] \in {"+", "-"}
HasMinus(s) == s # <<>> /\ s[1] = "-"
Unsigned(s) == IF HasSign(s) THEN Tail(s) ELSE s

\* The value of the digits intS.fracS with the exponent digits expD.
FloatValue(neg, intS, fracS, hasExp, expNeg, expD) ==
    IF /\ AllDigits(intS)
       /\ AllDigits(fracS)
       /\ intS \o fracS # <<>>
       /\ hasExp => (expD # <<>> /\ AllDigits(expD))
    THEN MkFloat(neg, NatOf(intS \o fracS),
                 (IF ~hasExp THEN 0 ELSE IF expNeg THEN 0 - NatOf(expD) ELSE NatOf(expD))
                     - Len(fracS))
    ELSE ValueError

\* The mantissa text split at its decimal point `dot`.
FloatMantissa(neg, mantS, dot, hasExp, expS) ==
    FloatValue(neg, SubSeq(mantS, 1, dot - 1), Drop(mantS, dot + 1),
               hasExp, HasMinus(expS), Unsigned(expS))

\* The text split at its exponent marker ePos.
FloatExponent(neg, low, ePos) ==
    FloatMantissa(neg, SubSeq(low, 1, ePos - 1), FirstOf(SubSeq(low, 1, ePos - 1), {"."}),
                  ePos <= Len(low), Drop(low, ePos + 1))

\* The lowered text after the sign.
FloatUnsigned(neg, low) ==
    IF low \in {<<"i", "n", "f">>, <<"i", "n", "f", "i", "n", "i", "t", "y">>}
        THEN Inf(neg)
    ELSE IF low = <<"n", "a", "n">> THEN NaN
    ELSE FloatExponent(neg, low, FirstOf(low, {"e"}))

\* float(s) for a string without surrounding whitespace: an optional sign, then
\* inf, infinity or nan in any case, or digits with an optional decimal point
\* and an optional exponent.  Anything else is a ValueError.
FloatOf(s) == FloatUnsigned(HasMinus(s), Lower(Unsigned(s)))

(***************************************************************************)
(* utils.money_to_float                                                    *)
(***************************************************************************)
\* cleaned.startswith('(') and cleaned.endswith(')'), and cleaned[1:-1]
HasParens(s) == s # <<>> /\ Head(s) = "(" /\ s[Len(s)] = ")"
StripParens(s) == IF HasParens(s) THEN SubSeq(s, 2, Len(s) - 1) ELSE s

\* cleaned.startswith('-'), and cleaned[1:]
StripMinus(s) == IF HasMinus(s) THEN Tail(s) ELSE s

\* return -result if is_negative else result; 0.0 on ValueError
FloatOrZero(result, is_negative) ==
    IF result = ValueError THEN Zero
    ELSE IF is_negative THEN Neg(result) ELSE result

\* After the parentheses are taken off: the leading minus sign, then float().
MoneyUnwrapped(cleaned, paren) ==
    FloatOrZero(FloatOf(StripMinus(cleaned)), paren \/ HasMinus(cleaned))

\* After re.sub: the parentheses.
MoneyCleaned(cleaned) == MoneyUnwrapped(StripParens(cleaned), HasParens(cleaned))

money_to_float(value) ==
    IF value = <<>> THEN Zero
    ELSE MoneyCleaned(RemoveChars(Strip(value), {"$", ","} \cup Whitespace))

(***************************************************************************)
(* Regular-expression primitives, on a string and a 1-based position.      *)
(* Scans split their range in halves, so that their depth stays small on   *)
(* long texts; they visit the positions from left to right.                *)
(***************************************************************************)
NoMatch == <<>>

\* The first of two attempts that matches.
OrElse(a, b) == IF a # NoMatch THEN a ELSE b

\* The regex class \w.
WordChars == UpperSet \cup LowerSet \cup Digits \cup {"_"}

IsWordAt(s, i) == i >= 1 /\ i <= Len(s) /\ s[i] \in WordChars
IsDigitAt(s, i) == i >= 1 /\ i <= Len(s) /\ s[i] \in Digits
IsCharAt(s, i, c) == i >= 1 /\ i <= Len(s) /\ s[i] = c

\* \b between s[i-1] and s[i].
WordBoundary(s, i) == IsWordAt(s, i - 1) # IsWordAt(s, i)

\* The first of two positions that was found (0 is none).
FoundOr(j, k) == IF j # 0 THEN j ELSE k

RECURSIVE FirstNotIn(_, _, _, _)
\* The least k in lo..hi with s[k] not in `class`, 0 when there is none.
FirstNotIn(s, class, lo, hi) ==
    IF lo > hi THEN 0
    ELSE IF lo = hi THEN (IF s[lo] \notin class THEN lo ELSE 0)
    ELSE FoundOr(FirstNotIn(s, class, lo, (lo + hi) \div 2),
                 FirstNotIn(s, class, (lo + hi) \div 2 + 1, hi))

\* The end of a run that starts at i in a string of length n, given the first
\* position j from i on that is not of the run (0 when there is none).
RunEnd(j, i, n) == IF j # 0 THEN j ELSE IF i > n THEN i ELSE n + 1

\* Where a greedy run of characters of `class` that starts at i ends.
SkipClass(s, i, class) == RunEnd(FirstNotIn(s, class, i, Len(s)), i, Len(s))

\* Where a greedy \s*, [0-9]* or [\w\s]* that starts at i ends.
SkipSpace(s, i) == SkipClass(s, i, Whitespace)
SkipDigits(s, i) == SkipClass(s, i, Digits)
SkipWordSpace(s, i) == SkipClass(s, i, WordChars \cup Whitespace)

\* Where an optional character c at i ends.
SkipChar(s, i, c) == IF IsCharAt(s, i, c) THEN i + 1 ELSE i

\* ([0-9]+\.[0-9]{2}) from b, the digits ending before c: the group, or NoMatch.
AmountDigits(s, b, c) ==
    IF /\ IsDigitAt(s, b)
       /\ IsCharAt(s, c, ".") /\ IsDigitAt(s, c + 1) /\ IsDigitAt(s, c + 2)
    THEN SubSeq(s, b, c + 2)
    ELSE NoMatch

\* ([0-9]+\.[0-9]{2}) at b.
AmountGroupAt(s, b) == AmountDigits(s, b, SkipDigits(s, b))

\* \$?\s*([0-9]+\.[0-9]{2}) at i: the group, or NoMatch.
AmountAt(s, i) == AmountGroupAt(s, SkipSpace(s, SkipChar(s, i, "$")))

\* .*?\$?\s*([0-9]+\.[0-9]{2}) at i with DOTALL: the group of the first
\* position from i on where the amount matches.
\* The amount at the least position of lo..hi where it matches.
RECURSIVE AmountIn(_, _, _)
AmountIn(s, lo, hi) ==
    IF lo > hi THEN NoMatch
    ELSE IF lo = hi THEN AmountAt(s, lo)
    ELSE OrElse(AmountIn(s, lo, (lo + hi) \div 2),
                AmountIn(s, (lo + hi) \div 2 + 1, hi))

FirstAmountFrom(s, i) == AmountIn(s, i, Len(s))

\* The label without its \b on either side.
LabelAmountAt_NoBoundary(s, i, label) ==
    IF StartsWithAt(s, i, label)
    THEN AmountAt(s, SkipSpace(s, i + Len(label)))
    ELSE NoMatch

\* \b<label>\b\s*\$?\s*([0-9]+\.[0-9]{2}) at i (RE_TOTAL, RE_SUBTOTAL, RE_TAXES).
LabelAmountAt(s, i, label) ==
    IF /\ StartsWithAt(s, i, label)
       /\ WordBoundary(s, i)
       /\ WordBoundary(s, i + Len(label))
    THEN AmountAt(s, SkipSpace(s, i + Len(label)))
    ELSE NoMatch

\* The match at the least position of lo..hi.
RECURSIVE LabelAmountIn(_, _, _, _)
LabelAmountIn(s, label, lo, hi) ==
    IF lo > hi THEN NoMatch
    ELSE IF lo = hi THEN LabelAmountAt(s, lo, label)
    ELSE OrElse(LabelAmountIn(s, label, lo, (lo + hi) \div 2),
                LabelAmountIn(s, label, (lo + hi) \div 2 + 1, hi))

\* pattern.search: the group of the leftmost match.
LabelAmountSearch(s, label) == LabelAmountIn(s, label, 1, Len(s))

L_savings   == <<"s", "a", "v", "i", "n", "g", "s">>
L_multisave == <<"m", "u", "l", "t", "i", "s", "a", "v", "e">>
L_discount  == <<"d", "i", "s", "c", "o", "u", "n", "t">>
L_delivery  == <<"d", "e", "l", "i", "v", "e", "r", "y">>
L_fee       == <<"f", "e", "e">>
L_shipping  == <<"s", "h", "i", "p", "p", "i", "n", "g">>
L_free_delivery_from_store ==
    <<"f", "r", "e", "e", " ", "d", "e", "l", "i", "v", "e", "r", "y", " ",
      "f", "r", "o", "m", " ", "s", "t", "o", "r", "e">>
L_subtotal  == <<"s", "u", "b", "t", "o", "t", "a", "l">>
L_taxes     == <<"t", "a", "x", "e", "s">>
L_total     == <<"t", "o", "t", "a", "l">>

\* ([0-9]+(?:\.[0-9]{2})?) from e, the digits ending before f.
DiscountDigits(s, e, f) ==
    IF ~IsDigitAt(s, e) THEN NoMatch
    ELSE IF IsCharAt(s, f, ".") /\ IsDigitAt(s, f + 1) /\ IsDigitAt(s, f + 2)
         THEN SubSeq(s, e, f + 2)
    ELSE SubSeq(s, e, f - 1)

\* ([0-9]+(?:\.[0-9]{2})?) at e.
DiscountGroupAt(s, e) == DiscountDigits(s, e, SkipDigits(s, e))

\* \b\s*[-]?\s*\$?\s*([0-9]+(?:\.[0-9]{2})?) at j: the group, or NoMatch.
DiscountValueAt(s, j) ==
    IF ~WordBoundary(s, j) THEN NoMatch
    ELSE DiscountGroupAt(s,
             SkipSpace(s, SkipChar(s, SkipSpace(s, SkipChar(s, SkipSpace(s, j), "-")), "$")))

\* Savings, then the value.
SavingsAt(s, i) ==
    IF StartsWithAt(s, i, L_savings)
    THEN DiscountValueAt(s, i + Len(L_savings)) ELSE NoMatch

\* Discount at j, then the value.
DiscountWordAt(s, j) ==
    IF StartsWithAt(s, j, L_discount)
    THEN DiscountValueAt(s, j + Len(L_discount)) ELSE NoMatch

RECURSIVE LastDiscountWordIn(_, _, _)
\* The match of DiscountWordAt at the greatest position of lo..hi.
LastDiscountWordIn(s, lo, hi) ==
    IF lo > hi THEN NoMatch
    ELSE IF lo = hi THEN DiscountWordAt(s, lo)
    ELSE OrElse(LastDiscountWordIn(s, (lo + hi) \div 2 + 1, hi),
                LastDiscountWordIn(s, lo, (lo + hi) \div 2))

\* Multisave\s*Discount, then the value.
MultisaveDiscountAt(s, i) ==
    IF StartsWithAt(s, i, L_multisave)
    THEN DiscountWordAt(s, SkipSpace(s, i + Len(L_multisave))) ELSE NoMatch

\* [\w\s]*Discount, then the value.  The star is greedy and gives back one
\* character at a time: of the places in its run where "Discount" and the value
\* match, the engine finds the last.
PhraseDiscountAt(s, i) == LastDiscountWordIn(s, i, SkipWordSpace(s, i))

\* RE_DISCOUNT matched at i: \b, then the first alternative of
\* (?:Savings|Multisave\s*Discount|[\w\s]*Discount) after which the rest matches.
DiscountAt(s, i) ==
    IF ~WordBoundary(s, i) THEN NoMatch
    ELSE OrElse(SavingsAt(s, i), OrElse(MultisaveDiscountAt(s, i), PhraseDiscountAt(s, i)))

\* The match at the least position of lo..hi.
RECURSIVE DiscountIn(_, _, _)
DiscountIn(s, lo, hi) ==
    IF lo > hi THEN NoMatch
    ELSE IF lo = hi THEN DiscountAt(s, lo)
    ELSE OrElse(DiscountIn(s, lo, (lo + hi) \div 2),
                DiscountIn(s, (lo + hi) \div 2 + 1, hi))

\* RE_DISCOUNT.search: the group of the leftmost match.
RE_DISCOUNT(s) == DiscountIn(s, 1, Len(s))

\* The value right after the label only: no text between them.
DeliveryValueAt_Adjacent(s, j) ==
    IF WordBoundary(s, j) THEN AmountAt(s, j) ELSE NoMatch

\* \b.*?\$?\s*([0-9]+\.[0-9]{2}) at the end j of a delivery label.
DeliveryValueAt(s, j) ==
    IF WordBoundary(s, j) THEN FirstAmountFrom(s, j) ELSE NoMatch

\* fee at f, then the value.
FeeWordAt(s, f) ==
    IF StartsWithAt(s, f, L_fee) THEN DeliveryValueAt(s, f + Len(L_fee)) ELSE NoMatch

\* <word>(?:\s*fee)? at i, then the value: with "fee" first, then without.
FeeLabelAt(s, i, word) ==
    IF ~StartsWithAt(s, i, word) THEN NoMatch
    ELSE OrElse(FeeWordAt(s, SkipSpace(s, i + Len(word))),
                DeliveryValueAt(s, i + Len(word)))

\* Free Delivery From Store, then the value.
FreeDeliveryAt(s, i) ==
    IF StartsWithAt(s, i, L_free_delivery_from_store)
    THEN DeliveryValueAt(s, i + Len(L_free_delivery_from_store)) ELSE NoMatch

\* The pattern without the Shipping labels.
DeliveryAt_NoShipping(s, i) ==
    IF ~WordBoundary(s, i) THEN NoMatch
    ELSE OrElse(FeeLabelAt(s, i, L_delivery), FreeDeliveryAt(s, i))

\* RE_DELIVERY matched at i: \b, then the first alternative of
\* (?:Delivery(?:\s*fee)?|Shipping(?:\s*fee)?|Free Delivery From Store) after
\* which the rest matches.
DeliveryAt(s, i) ==
    IF ~WordBoundary(s, i) THEN NoMatch
    ELSE OrElse(FeeLabelAt(s, i, L_delivery),
                OrElse(FeeLabelAt(s, i, L_shipping), FreeDeliveryAt(s, i)))

\* The match at the least position of lo..hi.
RECURSIVE DeliveryIn(_, _, _)
DeliveryIn(s, lo, hi) ==
    IF lo > hi THEN NoMatch
    ELSE IF lo = hi THEN DeliveryAt(s, lo)
    ELSE OrElse(DeliveryIn(s, lo, (lo + hi) \div 2),
                DeliveryIn(s, (lo + hi) \div 2 + 1, hi))

\* RE_DELIVERY.search: the group of the leftmost match.
RE_DELIVERY(s) == DeliveryIn(s, 1, Len(s))

RE_SUBTOTAL(s) == LabelAmountSearch(s, L_subtotal)
RE_TAXES(s) == LabelAmountSearch(s, L_taxes)
RE_TOTAL(s) == LabelAmountSearch(s, L_total)

(***************************************************************************)
(* parsing.parse_order_page                                                *)
(***************************************************************************)
RECURSIVE CollapseRange(_, _, _)
\* The collapsed form of s[lo..hi]: a blank that follows a blank is dropped,
\* the first blank of a run becomes a space.
CollapseRange(s, lo, hi) ==
    IF lo > hi THEN <<>>
    ELSE IF lo = hi
         THEN IF s[lo] \notin {" ", "\t"} THEN <<s[lo]>>
              ELSE IF lo > 1 /\ s[lo - 1] \in {" ", "\t"} THEN <<>>
              ELSE <<" ">>
    ELSE CollapseRange(s, lo, (lo + hi) \div 2)
         \o CollapseRange(s, (lo + hi) \div 2 + 1, hi)

\* re.sub(r"[ \t]+", " ", text)
CollapseBlanks(s) == CollapseRange(s, 1, Len(s))

\* A money field: 0.0, or money_to_float of the group when the pattern matched.
MoneyField(group) == IF group = NoMatch THEN Zero ELSE money_to_float(group)

\* The discount stored as the page prints it, without -abs().
DiscountField_AsPrinted(group) ==
    IF group = NoMatch THEN Zero ELSE money_to_float(group)

\* discount = -abs(money_to_float(group)) when RE_DISCOUNT matched, else 0.0
DiscountField(group) ==
    IF group = NoMatch THEN Zero ELSE Neg(Abs(money_to_float(group)))

\* [A-Za-z]
Letters == UpperSet \cup LowerSet

L_delivered_on == <<"d", "e", "l", "i", "v", "e", "r", "e", "d", " ", "o", "n">>
L_order_mark == <<"o", "r", "d", "e", "r", "#">>
L_payment_method == <<"p", "a", "y", "m", "e", "n", "t", " ", "m", "e", "t", "h", "o", "d">>
L_ending_in == <<"e", "n", "d", "i", "n", "g", " ", "i", "n">>
L_address == <<"a", "d", "d", "r", "e", "s", "s">>

\* ([A-Za-z]{3,9}\s+\d{1,2}) from b: the letters end before e, the blanks
\* before d.
MonthDayDigits(s, b, e, d) ==
    IF e - b >= 3 /\ e - b <= 9 /\ d > e /\ IsDigitAt(s, d)
    THEN SubSeq(s, b, IF IsDigitAt(s, d + 1) THEN d + 1 ELSE d)
    ELSE NoMatch

MonthDayLetters(s, b, e) == MonthDayDigits(s, b, e, SkipSpace(s, e))

\* \s+([A-Za-z]{3,9}\s+\d{1,2}) from a, the blanks ending before b.
MonthDayAfter(s, a, b) ==
    IF b > a THEN MonthDayLetters(s, b, SkipClass(s, b, Letters)) ELSE NoMatch

\* RE_DATE_DELIVERED at i: the group, or NoMatch.
DeliveredAt(s, low, i) ==
    IF StartsWithAt(low, i, L_delivered_on)
    THEN MonthDayAfter(s, i + Len(L_delivered_on), SkipSpace(s, i + Len(L_delivered_on)))
    ELSE NoMatch

RECURSIVE DeliveredIn(_, _, _, _)
DeliveredIn(s, low, lo, hi) ==
    IF lo > hi THEN NoMatch
    ELSE IF lo = hi THEN DeliveredAt(s, low, lo)
    ELSE OrElse(DeliveredIn(s, low, lo, (lo + hi) \div 2),
                DeliveredIn(s, low, (lo + hi) \div 2 + 1, hi))

\* RE_DATE_DELIVERED.search(text_norm): group(1), or NoMatch.
RE_DATE_DELIVERED(s, low) == DeliveredIn(s, low, 1, Len(s))

\* \d{4})\b from d: where the year ends, 0 when it does not match.
YearEnd(s, d) ==
    IF /\ \A k \in 0..3 : IsDigitAt(s, d + k)
       /\ ~IsWordAt(s, d + 4)
    THEN d + 4 ELSE 0

\* ,\s+\d{4})\b or ,\s*\d{4})\b from c, the blanks ending before d.
YearAfterComma(s, c, d, min_blanks) ==
    IF IsCharAt(s, c, ",") /\ d - (c + 1) >= min_blanks THEN YearEnd(s, d) ELSE 0

\* \d{1,2},\s+\d{4})\b from b; the comma is at c.
DayYear(s, b, c, min_blanks) ==
    IF IsDigitAt(s, b) THEN YearAfterComma(s, c, SkipSpace(s, c + 1), min_blanks) ELSE 0

\* \s+\d{1,2},... from a, the blanks ending before b.
DayYearAfter(s, a, b, min_blanks) ==
    IF b > a
    THEN DayYear(s, b, IF IsDigitAt(s, b + 1) THEN b + 2 ELSE b + 1, min_blanks)
    ELSE 0

\* \b([A-Z][a-z]{2}\s+\d{1,2},\s+\d{4})\b at i, the first letter of `first`
\* and the next two of `rest`: where the date ends, 0 when it does not match.
HeaderDateEnd(s, i, first, rest, min_blanks) ==
    IF /\ i + 2 <= Len(s)
       /\ s[i] \in first /\ s[i + 1] \in rest /\ s[i + 2] \in rest
       /\ ~IsWordAt(s, i - 1)
    THEN DayYearAfter(s, i + 3, SkipSpace(s, i + 3), min_blanks)
    ELSE 0

\* \bOrder#\b at k: a word character must follow the #.
OrderMarkAt(s, low, k) ==
    /\ StartsWithAt(low, k, L_order_mark)
    /\ ~IsWordAt(s, k - 1)
    /\ IsWordAt(s, k + Len(L_order_mark))

\* .*?\bOrder#\b from e, with DOTALL.
OrderMarkFrom(s, low, e) == \E k \in e..Len(s) : OrderMarkAt(s, low, k)

\* The group of RE_DATE_HEADER at i, the date ending before e.
HeaderDateGroup(s, low, i, e) ==
    IF e # 0 /\ OrderMarkFrom(s, low, e) THEN SubSeq(s, i, e - 1) ELSE NoMatch

\* RE_DATE_HEADER at i (IGNORECASE).
HeaderDateAt(s, low, i) ==
    HeaderDateGroup(s, low, i, HeaderDateEnd(s, i, Letters, Letters, 1))

RECURSIVE HeaderDateIn(_, _, _, _)
HeaderDateIn(s, low, lo, hi) ==
    IF lo > hi THEN NoMatch
    ELSE IF lo = hi THEN HeaderDateAt(s, low, lo)
    ELSE OrElse(HeaderDateIn(s, low, lo, (lo + hi) \div 2),
                HeaderDateIn(s, low, (lo + hi) \div 2 + 1, hi))

\* RE_DATE_HEADER.search(text_norm): group(1), or NoMatch.
RE_DATE_HEADER(s, low) == HeaderDateIn(s, low, 1, Len(s))

\* group(3) of RE_HEADER_SIMPLE at i, which is case-sensitive.
HeaderYear(s, e) == IF e # 0 THEN SubSeq(s, e - 4, e - 1) ELSE NoMatch

HeaderSimpleAt(s, i) == HeaderYear(s, HeaderDateEnd(s, i, UpperSet, LowerSet, 0))

RECURSIVE HeaderSimpleIn(_, _, _)
HeaderSimpleIn(s, lo, hi) ==
    IF lo > hi THEN NoMatch
    ELSE IF lo = hi THEN HeaderSimpleAt(s, lo)
    ELSE OrElse(HeaderSimpleIn(s, lo, (lo + hi) \div 2),
                HeaderSimpleIn(s, (lo + hi) \div 2 + 1, hi))

\* RE_HEADER_SIMPLE.search(text_norm): group(3), or NoMatch.
RE_HEADER_SIMPLE(s) == HeaderSimpleIn(s, 1, Len(s))

\* parts[0] and parts[1] of a 'Mon 19' date, then the year.
WithYearAt(date, e, year) ==
    SubSeq(date, 1, e - 1) \o <<" ">> \o Drop(date, SkipSpace(date, e)) \o <<",", " ">> \o year

\* f"{parts[0]} {parts[1]}, {m.group(3)}"
WithYear(date, year) == WithYearAt(date, SkipClass(date, 1, Letters), year)

\* `if date_str and "," not in date_str`: the year of the header, when the
\* page has one.
EnsureYear(date, year) ==
    IF date # <<>> /\ "," \notin {date[k] : k \in 1..Len(date)} /\ year # NoMatch
    THEN WithYear(date, year)
    ELSE date

\* The header match first, 'Delivered on' when there is none.
DateOf_HeaderFirst(delivered, s, low) ==
    IF RE_DATE_HEADER(s, low) # NoMatch THEN RE_DATE_HEADER(s, low)
    ELSE EnsureYear(delivered, RE_HEADER_SIMPLE(s))

\* date_str: of 'Delivered on', else of the header.
DateOf(delivered, s, low) ==
    IF delivered # NoMatch THEN EnsureYear(delivered, RE_HEADER_SIMPLE(s))
    ELSE RE_DATE_HEADER(s, low)

\* The length of the payment window.
PaymentWindowSize == 500

\* The least position of a set of positions, 0 for the empty set.
FirstPos(S) == IF S = {} THEN 0 ELSE CHOOSE k \in S : \A j \in S : k <= j

\* text_norm.lower().find("payment method"), 0 when it is not found.
FindPaymentMethod(low) ==
    FirstPos({k \in 1..Len(low) : StartsWithAt(low, k, L_payment_method)})

\* text_norm[idx: idx + 500] if idx != -1 else text_norm
WindowAt(s, idx) ==
    IF idx = 0 THEN s ELSE SubSeq(s, idx, Min(Len(s), idx + PaymentWindowSize - 1))

\* PAYMENT_BRANDS: each entry is its alternatives, each alternative two words
\* with \s* between them (the second empty for a single word).  Debit with
\* its optional Card matches where Debit does.
PAYMENT_BRANDS ==
    << {<<<<"a", "p", "p", "l", "e">>, <<"p", "a", "y">>>>},
       {<<<<"g", "o", "o", "g", "l", "e">>, <<"p", "a", "y">>>>},
       {<<<<"p", "a", "y", "p", "a", "l">>, <<>> >>},
       {<<<<"v", "i", "s", "a">>, <<>> >>},
       {<<<<"m", "a", "s", "t", "e", "r">>, <<"c", "a", "r", "d">>>>},
       {<<<<"a", "m", "e", "r", "i", "c", "a", "n">>, <<"e", "x", "p", "r", "e", "s", "s">>>>, <<<<"a", "m", "e", "x">>, <<>> >>},
       {<<<<"d", "i", "s", "c", "o", "v", "e", "r">>, <<>> >>},
       {<<<<"d", "e", "b", "i", "t">>, <<>> >>},
       {<<<<"c", "r", "e", "d", "i", "t">>, <<"c", "a", "r", "d">>>>},
       {<<<<"g", "i", "f", "t">>, <<"c", "a", "r", "d">>>>} >>

\* <first>\s*<second> at i.
WordsAt(low, i, first, second) ==
    /\ StartsWithAt(low, i, first)
    /\ StartsWithAt(low, SkipSpace(low, i + Len(first)), second)

\* re.search(pat, window, flags=re.IGNORECASE)
BrandMatches(low, alternatives) ==
    \E alt \in alternatives : \E i \in 1..Len(low) : WordsAt(low, i, alt[1], alt[2])

\* payment_brand: the number of the first entry of PAYMENT_BRANDS that
\* matches in the window, 0 for None.
PaymentBrand(low) ==
    FirstPos({k \in 1..Len(PAYMENT_BRANDS) : BrandMatches(low, PAYMENT_BRANDS[k])})

\* (\d{4}) at b.
FourDigitsAt(s, b) ==
    IF \A k \in 0..3 : IsDigitAt(s, b + k) THEN SubSeq(s, b, b + 3) ELSE NoMatch

\* RE_ENDING_IN at i.
EndingInAt(s, low, i) ==
    IF StartsWithAt(low, i, L_ending_in)
    THEN FourDigitsAt(s, SkipSpace(s, i + Len(L_ending_in)))
    ELSE NoMatch

RECURSIVE EndingInIn(_, _, _, _)
EndingInIn(s, low, lo, hi) ==
    IF lo > hi THEN NoMatch
    ELSE IF lo = hi THEN EndingInAt(s, low, lo)
    ELSE OrElse(EndingInIn(s, low, lo, (lo + hi) \div 2),
                EndingInIn(s, low, (lo + hi) \div 2 + 1, hi))

\* RE_ENDING_IN.search(s): group(1), or NoMatch.
RE_ENDING_IN(s, low) == EndingInIn(s, low, 1, Len(s))

\* The first match of the whole text, whatever the window holds.
PaymentLast4_WholeText(window, s) == RE_ENDING_IN(s, Lower(s))

\* payment_last4: RE_ENDING_IN.search(window) or RE_ENDING_IN.search(text_norm)
PaymentLast4(window, s) ==
    OrElse(RE_ENDING_IN(window, Lower(window)), RE_ENDING_IN(s, Lower(s)))

L_stars == <<"*", "*", "*", "*">>
L_not_available == <<"N", "/", "A">>

\* The display with the brand in front of the stars.
PaymentDisplay_BrandOnly(payment_brand, payment_last4) ==
    IF payment_brand # 0 /\ payment_last4 # NoMatch THEN L_stars \o payment_last4
    ELSE L_not_available

\* payment_display
PaymentDisplay(payment_brand, payment_last4) ==
    IF payment_brand # 0 /\ payment_last4 # NoMatch THEN L_stars \o payment_last4
    ELSE IF payment_last4 # NoMatch THEN L_stars \o payment_last4
    ELSE L_not_available

\* The payment display of the page, from its window.
PaymentOf(window, s) == PaymentDisplay(PaymentBrand(Lower(window)), PaymentLast4(window, s))

\* The characters of a name token: [A-Za-z'-]; with the space, those of the
\* name line.
NameTokenChars == Letters \cup {"'", "-"}
NameLineChars == NameTokenChars \cup {" "}

\* name_tokens[0]: the group starts at b with a letter and one character of
\* the name line at least; its first token ends at the first character that
\* is not of a token.
FirstNameAt(s, a, b) ==
    IF b > a /\ b + 1 <= Len(s) /\ s[b] \in Letters /\ s[b + 1] \in NameLineChars
    THEN SubSeq(s, b, SkipClass(s, b + 1, NameTokenChars) - 1)
    ELSE NoMatch

\* RE_ADDRESS_NAME_LINE at i: the first token of the group, or NoMatch.
AddressNameAt(s, low, i) ==
    IF StartsWithAt(low, i, L_address)
    THEN FirstNameAt(s, i + Len(L_address), SkipSpace(s, i + Len(L_address)))
    ELSE NoMatch

RECURSIVE AddressNameIn(_, _, _, _)
AddressNameIn(s, low, lo, hi) ==
    IF lo > hi THEN NoMatch
    ELSE IF lo = hi THEN AddressNameAt(s, low, lo)
    ELSE OrElse(AddressNameIn(s, low, lo, (lo + hi) \div 2),
                AddressNameIn(s, low, (lo + hi) \div 2 + 1, hi))

\* name: "" without a match.
NameOf(s, low) == AddressNameIn(s, low, 1, Len(s))

\* The OrderSummary, from text_norm and its lowered form: the patterns of the
\* money fields are IGNORECASE.
SummaryOf(s, low, order_no, url) ==
    [ order_no      |-> order_no,
      url           |-> url,
      date_str      |-> DateOf(RE_DATE_DELIVERED(s, low), s, low),
      payment_last4 |-> PaymentOf(WindowAt(s, FindPaymentMethod(low)), s),
      name          |-> NameOf(s, low),
      subtotal      |-> MoneyField(RE_SUBTOTAL(low)),
      discount      |-> DiscountField(RE_DISCOUNT(low)),
      delivery      |-> MoneyField(RE_DELIVERY(low)),
      taxes         |-> MoneyField(RE_TAXES(low)),
      total         |-> MoneyField(RE_TOTAL(low)),
      items         |-> <<>> ]

\* text_norm, then the fields.
SummaryOfNorm(text_norm, order_no, url) == SummaryOf(text_norm, Lower(text_norm), order_no, url)

\* The call with url in the place of order_no and order_no in that of url.
parse_order_page_Swapped(text, order_no, url) ==
    SummaryOfNorm(CollapseBlanks(text), url, order_no)

\* The OrderSummary that parse_order_page returns for the visible text `text`
\* (what BeautifulSoup's get_text gives for the page).
parse_order_page(text, order_no, url) == SummaryOfNorm(CollapseBlanks(text), order_no, url)

\* The record before the call.
NoSummary ==
    [ order_no |-> <<>>, url |-> <<>>, date_str |-> <<>>, payment_last4 |-> <<>>,
      name |-> <<>>, subtotal |-> Zero, discount |-> Zero, delivery |-> Zero,
      taxes |-> Zero, total |-> Zero, items |-> <<>> ]

\* The arguments before the call.
NoArgs == [order_no |-> <<>>, url |-> <<>>]

MoneyIdle == mtf_value = <<>> /\ mtf_result = NotCalled
\* sys.exit was not called and main has not returned.
NotExited == -1

ParseIdle ==
    page_phrases = <<>> /\ parse_args = NoArgs /\ parse_pc = "idle" /\ parse_result = NoSummary

(***************************************************************************)
(* urllib.parse.unquote                                                    *)
(***************************************************************************)
\* The printable ASCII characters, from code 32 (space) to code 126 (~); the
\* grave accent, code 96, is written "grave".
Ascii ==
    <<" ", "!", "\"", "#", "$", "%", "&", "'", "(", ")", "*", "+", ",", "-", ".", "/",
      "0", "1", "2", "3", "4", "5", "6", "7", "8", "9", ":", ";", "<", "=", ">", "?",
      "@", "A", "B", "C", "D", "E", "F", "G", "H", "I", "J", "K", "L", "M", "N", "O",
      "P", "Q", "R", "S", "T", "U", "V", "W", "X", "Y", "Z", "[", "\\", "]", "^", "_",
      "grave", "a", "b", "c", "d", "e", "f", "g", "h", "i", "j", "k", "l", "m", "n", "o",
      "p", "q", "r", "s", "t", "u", "v", "w", "x", "y", "z", "{", "|", "}", "~">>

\* chr(code) for a printable ASCII code, tab, line feed and form feed.  Every
\* other code is shown as the replacement character, which the model writes
\* "U+FFFD": the texts of the model hold no escape of such a code.
Chr(code) ==
    IF code >= 32 /\ code <= 126 THEN Ascii[code - 31]
    ELSE IF code = 9 THEN "\t"
    ELSE IF code = 10 THEN "\n"
    ELSE IF code = 12 THEN "\f"
    ELSE "U+FFFD"

HexLetters == <<"a", "b", "c", "d", "e", "f">>
HexCapitals == <<"A", "B", "C", "D", "E", "F">>
HexDigits == Digits \cup {HexLetters[k] : k \in 1..6} \cup {HexCapitals[k] : k \in 1..6}

HexVal(c) ==
    IF c \in Digits THEN DigitVal(c)
    ELSE 9 + (CHOOSE k \in 1..6 : HexLetters[k] = c \/ HexCapitals[k] = c)

\* A percent escape at i: % and two hexadecimal digits.
IsEscapeAt(s, i) ==
    /\ IsCharAt(s, i, "%")
    /\ i + 2 <= Len(s)
    /\ s[i + 1] \in HexDigits
    /\ s[i + 2] \in HexDigits

\* What unquote writes for the character at i: the decoded character for an
\* escape, nothing for the two digits of an escape, the character otherwise.
UnquoteAt(s, i) ==
    IF IsEscapeAt(s, i) THEN <<Chr(16 * HexVal(s[i + 1]) + HexVal(s[i + 2]))>>
    ELSE IF IsEscapeAt(s, i - 1) \/ IsEscapeAt(s, i - 2) THEN <<>>
    ELSE <<s[i]>>

RECURSIVE UnquoteRange(_, _, _)
UnquoteRange(s, lo, hi) ==
    IF lo > hi THEN <<>>
    ELSE IF lo = hi THEN UnquoteAt(s, lo)
    ELSE UnquoteRange(s, lo, (lo + hi) \div 2) \o UnquoteRange(s, (lo + hi) \div 2 + 1, hi)

\* urllib.parse.unquote(s): one round of percent-decoding.
unquote(s) == UnquoteRange(s, 1, Len(s))

(***************************************************************************)
(* html.unescape                                                           *)
(***************************************************************************)
\* The longest name a character reference may have.
MaxEntityName == 32

\* The named references over the letters of the model, with the forms that
\* HTML5 accepts without a semicolon.
Entities ==
    ( <<"a", "m", "p", ";">> :> "&" ) @@ ( <<"a", "m", "p">> :> "&" ) @@
    ( <<"l", "t", ";">> :> "<" ) @@ ( <<"l", "t">> :> "<" ) @@
    ( <<"g", "t", ";">> :> ">" ) @@ ( <<"g", "t">> :> ">" ) @@
    ( <<"q", "u", "o", "t", ";">> :> "\"" ) @@ ( <<"q", "u", "o", "t">> :> "\"" )

IsEntity(name) == name \in DOMAIN Entities

\* The characters that end the name of a reference.
NameStop == {"\t", "\n", "\f", " ", "<", "&", "#", ";"}

RECURSIVE FirstIn(_, _, _, _)
\* The least k in lo..hi with s[k] in `class`, 0 when there is none.
FirstIn(s, class, lo, hi) ==
    IF lo > hi THEN 0
    ELSE IF lo = hi THEN (IF s[lo] \in class THEN lo ELSE 0)
    ELSE FoundOr(FirstIn(s, class, lo, (lo + hi) \div 2),
                 FirstIn(s, class, (lo + hi) \div 2 + 1, hi))

\* The end of the run [^\t\n\f <&#;]{1,32} that starts at i (the position
\* after its last character; i when the run is empty).
NameRunEnd(s, i) ==
    Min(RunEnd(FirstIn(s, NameStop, i, Len(s)), i, Len(s)), i + MaxEntityName)

\* The length of the longest proper prefix of `name`, of two characters or
\* more, that is a reference; 0 when there is none.
EntityPrefix(name) ==
    IF \E x \in 2..(Len(name) - 1) : IsEntity(SubSeq(name, 1, x))
    THEN CHOOSE x \in 2..(Len(name) - 1) :
             /\ IsEntity(SubSeq(name, 1, x))
             /\ \A y \in (x + 1)..(Len(name) - 1) : ~IsEntity(SubSeq(name, 1, y))
    ELSE 0

RECURSIVE UnescapeFrom(_, _)

\* The replacement of the named reference s[a+1..e] after the & at a, then the
\* rest of the text.
NamedRef(s, a, e, prefix) ==
    IF IsEntity(SubSeq(s, a + 1, e)) THEN <<Entities[SubSeq(s, a + 1, e)]>> \o UnescapeFrom(s, e + 1)
    ELSE IF prefix # 0
         THEN <<Entities[SubSeq(s, a + 1, a + prefix)]>> \o UnescapeFrom(s, a + prefix + 1)
    ELSE <<"&">> \o UnescapeFrom(s, a + 1)

\* The name that starts after the & at a and whose run ends before j: with
\* its semicolon when one follows.
NamedRefAt(s, a, j) ==
    IF j = a + 1 THEN <<"&">> \o UnescapeFrom(s, a + 1)
    ELSE NamedRef(s, a, SkipChar(s, j, ";") - 1,
                  EntityPrefix(SubSeq(s, a + 1, SkipChar(s, j, ";") - 1)))

RECURSIVE HexOf(_)
\* The number a hexadecimal digit string denotes.
HexOf(s) ==
    IF s = <<>> THEN 0 ELSE 16 * HexOf(SubSeq(s, 1, Len(s) - 1)) + HexVal(s[Len(s)])

\* The text of the numeric reference to the code point num: nothing for the
\* control characters that html.unescape drops.
NumericChar(num) ==
    IF num \in (1..8) \cup {11} \cup (14..31) \cup {127} THEN <<>> ELSE <<Chr(num)>>

\* The numeric reference whose digits are s[d..j-1], after the & at a.
NumericRef(s, a, d, j, num) ==
    IF j = d THEN <<"&">> \o UnescapeFrom(s, a + 1)
    ELSE NumericChar(num) \o UnescapeFrom(s, SkipChar(s, j, ";"))

\* &#[0-9]+;? and &#[xX][0-9a-fA-F]+;? at the & at a.
NumericRefAt(s, a) ==
    IF (IsCharAt(s, a + 2, "x") \/ IsCharAt(s, a + 2, "X")) /\ a + 3 <= Len(s) /\ s[a + 3] \in HexDigits
    THEN NumericRef(s, a, a + 3, SkipClass(s, a + 3, HexDigits),
                    HexOf(SubSeq(s, a + 3, SkipClass(s, a + 3, HexDigits) - 1)))
    ELSE NumericRef(s, a, a + 2, SkipDigits(s, a + 2),
                    NatOf(SubSeq(s, a + 2, SkipDigits(s, a + 2) - 1)))

\* The text from the & at a on.
CharRefAt(s, a) ==
    IF IsCharAt(s, a + 1, "#") THEN NumericRefAt(s, a)
    ELSE NamedRefAt(s, a, NameRunEnd(s, a + 1))

\* The text from i on, a being its first & (0 when it has none).
UnescapeUpTo(s, i, a) ==
    IF a = 0 THEN Drop(s, i) ELSE SubSeq(s, i, a - 1) \o CharRefAt(s, a)

UnescapeFrom(s, i) == UnescapeUpTo(s, i, FirstIn(s, {"&"}, i, Len(s)))

\* html.unescape(s)
html_unescape(s) == UnescapeFrom(s, 1)

(***************************************************************************)
(* outlook_fetcher._decode_candidates                                      *)
(***************************************************************************)
Contains(variants, x) == \E k \in 1..Len(variants) : variants[k] = x

\* variants.append(x) without the test that x is new.
AppendAlways(variants, x) == Append(variants, x)

\* if x not in variants: variants.append(x)
AppendNew(variants, x) == IF Contains(variants, x) THEN variants ELSE Append(variants, x)

\* u3 = unquote(u2), appended when new.
DecodeThird(variants, u3) == AppendNew(variants, u3)

\* u2 = unquote(u1), appended when new.
DecodeSecond(variants, u2) == DecodeThird(AppendNew(variants, u2), unquote(u2))

\* u1 = unquote(h), appended when new.
DecodeFirst(variants, u1) == DecodeSecond(AppendNew(variants, u1), unquote(u1))

\* h = html.unescape(s), appended when it differs from s.
DecodeUnescaped(s, h) == DecodeFirst(IF h # s THEN <<s, h>> ELSE <<s>>, unquote(h))

decode_candidates(s) == IF s = <<>> THEN <<>> ELSE DecodeUnescaped(s, html_unescape(s))

(***************************************************************************)
(* outlook_fetcher._extract_urls_from_safelinks                            *)
(***************************************************************************)
L_http ==
    <<"h", "t", "t", "p", ":", "/", "/">>
L_https ==
    <<"h", "t", "t", "p", "s", ":", "/", "/">>
L_safelinks ==
    <<"s", "a", "f", "e", "l", "i", "n", "k", "s", ".", "p", "r", "o", "t", "e", "c", "t", "i",
      "o", "n", ".", "o", "u", "t", "l", "o", "o", "k", ".", "c", "o", "m">>
L_url == <<"u", "r", "l">>

IsNonSpaceAt(s, i) == i >= 1 /\ i <= Len(s) /\ s[i] \notin Whitespace

\* https?://\S+ matches at k.
IsUrlStart(s, k) ==
    \/ StartsWithAt(s, k, L_https) /\ IsNonSpaceAt(s, k + Len(L_https))
    \/ StartsWithAt(s, k, L_http) /\ IsNonSpaceAt(s, k + Len(L_http))

RECURSIVE FirstUrlStart(_, _, _)
\* The least k in lo..hi where the pattern matches, 0 when there is none.
FirstUrlStart(s, lo, hi) ==
    IF lo > hi THEN 0
    ELSE IF lo = hi THEN (IF IsUrlStart(s, lo) THEN lo ELSE 0)
    ELSE FoundOr(FirstUrlStart(s, lo, (lo + hi) \div 2),
                 FirstUrlStart(s, (lo + hi) \div 2 + 1, hi))

\* The position after the match that starts at j: \S+ runs to the next
\* whitespace.
MatchEnd(s, j) == RunEnd(FirstIn(s, Whitespace, j, Len(s)), j, Len(s))

\* The characters of .rstrip("').,>\\\"]")
TrimChars == {"'", ")", ".", ",", ">", "\\", "\"", "]"}

RECURSIVE RStripChars(_, _)
RStripChars(s, set) ==
    IF s # <<>> /\ s[Len(s)] \in set THEN RStripChars(SubSeq(s, 1, Len(s) - 1), set) ELSE s

\* Where the scheme and :// of a matched URL end.
AuthorityStart(url) ==
    IF StartsWithAt(url, 1, L_https) THEN Len(L_https) + 1 ELSE Len(L_http) + 1

\* urlparse(url).netloc: from after :// to the first of / ? #.
NetlocOf(url) ==
    SubSeq(url, AuthorityStart(url),
           RunEnd(FirstIn(url, {"/", "?", "#"}, AuthorityStart(url), Len(url)),
                  AuthorityStart(url), Len(url)) - 1)

\* The part of `rest` before its first character c, all of it without one.
Before(rest, c) == SubSeq(rest, 1, RunEnd(FirstIn(rest, {c}, 1, Len(rest)), 1, Len(rest)) - 1)

\* The part of `rest` after its first character c, empty without one.
After(rest, c) == Drop(rest, RunEnd(FirstIn(rest, {c}, 1, Len(rest)), 1, Len(rest)) + 1)

\* urlparse(url).query: after the first ? that follows the netloc, up to the
\* first #.
QueryOf(url) == After(Before(Drop(url, AuthorityStart(url) + Len(NetlocOf(url))), "#"), "?")

\* urlparse raises ValueError on a netloc with a square bracket that does not
\* enclose an IPv6 or IPvFuture literal; the texts of the model hold no such
\* literal.
HasBracket(netloc) == \E k \in 1..Len(netloc) : netloc[k] \in {"[", "]"}
UrlparseRaises(url) == HasBracket(NetlocOf(url))

\* "safelinks.protection.outlook.com" in parsed.netloc
ContainsText(s, p) == \E k \in 1..(Len(s) - Len(p) + 1) : StartsWithAt(s, k, p)
IsSafeLink(url) == ContainsText(NetlocOf(url), L_safelinks)

RECURSIVE PlusRange(_, _, _)
PlusRange(s, lo, hi) ==
    IF lo > hi THEN <<>>
    ELSE IF lo = hi THEN (IF s[lo] = "+" THEN <<" ">> ELSE <<s[lo]>>)
    ELSE PlusRange(s, lo, (lo + hi) \div 2) \o PlusRange(s, (lo + hi) \div 2 + 1, hi)

\* str.replace('+', ' ')
PlusToSpace(s) == PlusRange(s, 1, Len(s))

\* What parse_qs decodes a name or a value to.
QsDecode(s) == unquote(PlusToSpace(s))

RECURSIVE UrlParamFrom(_, _)

\* The pair q[i..j-1] of the query, eq being where its = is (0 without one):
\* the decoded value when the name decodes to url and the value is not blank,
\* else the value of a later pair.
UrlParamPair(q, i, j, eq) ==
    IF eq # 0 /\ eq < j - 1 /\ QsDecode(SubSeq(q, i, eq - 1)) = L_url
    THEN QsDecode(SubSeq(q, eq + 1, j - 1))
    ELSE UrlParamFrom(q, j + 1)

\* The pair that starts at i and ends before j.
UrlParamUpTo(q, i, j) == UrlParamPair(q, i, j, FirstIn(q, {"="}, i, j - 1))

\* parse_qs(query).get("url", [None])[0] for the query from i on; NoMatch
\* stands for None.
UrlParamFrom(q, i) ==
    IF i > Len(q) THEN NoMatch
    ELSE UrlParamUpTo(q, i, RunEnd(FirstIn(q, {"&"}, i, Len(q)), i, Len(q)))

\* target = qs.get("url", [None])[0]
TargetOf(url) == UrlParamFrom(QueryOf(url), 1)

\* Two rounds of unquote in place of three.
Unwrapped_Twice(target) ==
    IF target = NoMatch THEN <<>> ELSE <<unquote(unquote(target))>>

\* if target: out.append(unquote(unquote(unquote(target))))
Unwrapped(target) ==
    IF target = NoMatch THEN <<>> ELSE <<unquote(unquote(unquote(target)))>>

\* out.append(url) for every URL, the redirector's included.
Emitted_NoUnwrap(url) == <<url>>

\* What the loop body appends to `out` for a URL: the target decoded three
\* times for a redirector URL that has one, nothing for a redirector URL
\* without one, the URL otherwise.
Emitted(url) == IF ~IsSafeLink(url) THEN <<url>> ELSE Unwrapped(TargetOf(url))

RECURSIVE UrlsFrom(_, _)

\* The loop body for the trimmed URL of a match that ends before e: an
\* exception ends the loop and keeps what `out` holds.
UrlsOfMatch(s, e, url) ==
    IF UrlparseRaises(url) THEN <<>> ELSE Emitted(url) \o UrlsFrom(s, e)

\* The loop from the match that starts at j (0: there is no further match).
UrlsAt(s, j, e) ==
    IF j = 0 THEN <<>> ELSE UrlsOfMatch(s, e, RStripChars(SubSeq(s, j, e - 1), TrimChars))

UrlsNext(s, j) == UrlsAt(s, j, MatchEnd(s, j))

\* What the loop appends to `out` from position i of s on.
UrlsFrom(s, i) == UrlsNext(s, FirstUrlStart(s, i, Len(s)))

extract_urls_from_safelinks(s) == IF s = <<>> THEN <<>> ELSE UrlsFrom(s, 1)

(***************************************************************************)
(* outlook_fetcher.extract_order_numbers_from_items                        *)
(*                                                                         *)
(* A message is a record: `readable` tells whether items.Item(i) returns   *)
(* it; Subject, HTMLBody and Body are fields of kind "str" (with a text),  *)
(* "none" (the property is None) or "raise" (reading it raises).           *)
(***************************************************************************)
Str(text) == [kind |-> "str", text |-> text]
None == [kind |-> "none", text |-> <<>>]
Raises == [kind |-> "raise", text |-> <<>>]

\* (field or ""), and "" when the read fails.
TextOf(field) == IF field.kind = "str" THEN field.text ELSE <<>>

L_orders == <<"/", "o", "r", "d", "e", "r", "s", "/">>

\* The groups of ORDER_RE.finditer(s), low being s lowered: the digits after
\* each /orders/ that a digit follows.
OrderGroups(s, low) ==
    { SubSeq(s, k + Len(L_orders), SkipDigits(s, k + Len(L_orders)) - 1) :
        k \in {j \in 1..Len(s) : /\ StartsWithAt(low, j, L_orders)
                                 /\ IsDigitAt(s, j + Len(L_orders))} }

\* {m.group(1) for m in ORDER_RE.finditer(s)}
OrderNumbersIn(s) == OrderGroups(s, Lower(s))

RECURSIVE AllUrls(_, _)
\* all_urls: the URLs of cand_strings[k..], in order.
AllUrls(cands, k) ==
    IF k > Len(cands) THEN <<>>
    ELSE extract_urls_from_safelinks(cands[k]) \o AllUrls(cands, k + 1)

RECURSIVE DecodedUrls(_, _)
\* The decoded variants of all_urls[k..], in order.
DecodedUrls(urls, k) ==
    IF k > Len(urls) THEN <<>>
    ELSE decode_candidates(urls[k]) \o DecodedUrls(urls, k + 1)

\* cand_strings without the variants of the URLs.
CandidatePool_BodiesOnly(cands) == cands

\* cand_strings after the URLs' variants were added.
CandidatePool(cands) == cands \o DecodedUrls(AllUrls(cands, 1), 1)

NumbersIn(strings) == UNION {OrderNumbersIn(strings[k]) : k \in 1..Len(strings)}

\* The numbers that the bodies of one message give.
NumbersOfBodies(html_body, text_body) ==
    NumbersIn(CandidatePool(decode_candidates(html_body) \o decode_candidates(text_body)))

\* The comparison without .lower() on either side.
SubjectDiffers_CaseSensitive(sub, subject_exact) == sub # Strip(subject_exact)

\* sub.lower() != subject_exact.strip().lower()
SubjectDiffers(sub, subject_exact) == Lower(sub) # Lower(Strip(subject_exact))

\* `if subject_exact and ...`: None and "" are false.
FilterActive(subject_exact) == subject_exact.given /\ subject_exact.text # <<>>

\* One try block around the reads of both bodies: a body that cannot be read
\* skips the message.
NumbersOfItem_BodyFailureSkips(it, subject_exact) ==
    IF ~it.readable \/ it.Subject.kind = "raise" THEN {}
    ELSE IF /\ FilterActive(subject_exact)
            /\ SubjectDiffers(Strip(TextOf(it.Subject)), subject_exact.text)
         THEN {}
    ELSE IF it.HTMLBody.kind = "raise" \/ it.Body.kind = "raise" THEN {}
    ELSE NumbersOfBodies(TextOf(it.HTMLBody), TextOf(it.Body))

\* What one item adds to `numbers`: nothing when the item or its subject
\* cannot be read, nothing when the filter skips it.
NumbersOfItem(it, subject_exact) ==
    IF ~it.readable \/ it.Subject.kind = "raise" THEN {}
    ELSE IF /\ FilterActive(subject_exact)
            /\ SubjectDiffers(Strip(TextOf(it.Subject)), subject_exact.text)
         THEN {}
    ELSE NumbersOfBodies(TextOf(it.HTMLBody), TextOf(it.Body))

\* The code point of a character of the model.
CodeOf(c) == 31 + (CHOOSE k \in 1..Len(Ascii) : Ascii[k] = c)

\* a < b for Python strings: at the first position where they differ, or a
\* is a proper prefix of b.
StrLess(a, b) ==
    \E k \in 1..(Min(Len(a), Len(b)) + 1) :
        /\ \A j \in 1..(k - 1) : a[j] = b[j]
        /\ IF k > Len(a) THEN k <= Len(b)
           ELSE k <= Len(b) /\ CodeOf(a[k]) < CodeOf(b[k])

\* The greatest string of a set.
StrMax(S) == CHOOSE x \in S : \A y \in S : y = x \/ StrLess(y, x)

\* The least string of a set.
StrMin(S) == CHOOSE x \in S : \A y \in S : y = x \/ StrLess(x, y)

RECURSIVE Sorted(_)
\* The rest sorted, then m.
SortedAfter_Appending(S, m) == Sorted(S \ {m}) \o <<m>>

\* m, then the rest sorted.
SortedAfter(S, m) == <<m>> \o Sorted(S \ {m})

\* sorted(list(numbers))
Sorted(S) == IF S = {} THEN <<>> ELSE SortedAfter(S, StrMin(S))

\* items is a record: is_none for items=None, else its messages.
extract_order_numbers_from_items(items, subject_exact) ==
    IF items.is_none THEN <<>>
    ELSE Sorted(UNION {NumbersOfItem(items.msgs[i], subject_exact) : i \in 1..Len(items.msgs)})

(***************************************************************************)
(* walmart_fetcher._write_order_files                                      *)
(***************************************************************************)
DigitChar(d) == CHOOSE c \in Digits : DigitVal(c) = d

RECURSIVE NatStr(_)
\* str(n) for a natural number.
NatStr(n) == IF n < 10 THEN <<DigitChar(n)>> ELSE NatStr(n \div 10) \o <<DigitChar(n % 10)>>

\* n / d rounded to the nearest integer, the half to the even one.
HalfEven(n, d) ==
    IF 2 * (n % d) > d \/ (2 * (n % d) = d /\ (n \div d) % 2 = 1)
    THEN n \div d + 1
    ELSE n \div d

\* |x| in hundredths, for a finite x.  The amounts of an OrderSummary have
\* two decimals at most, and their hundredths are exact; a longer fraction
\* is rounded here as the decimal number it is.
Hundredths(x) ==
    IF x.exp >= -2 THEN x.mant * Pow10(x.exp + 2) ELSE HalfEven(x.mant, Pow10(-2 - x.exp))

\* "%.2f" of a number of hundredths.
FixedTwo(h) == NatStr(h \div 100) \o <<".", DigitChar((h % 100) \div 10), DigitChar(h % 10)>>

\* The sign that the format prints: also that of -0.0 and of -inf.
SignOf(x) == IF x.neg /\ x.kind # "nan" THEN <<"-">> ELSE <<>>

\* f"{x:.2f}"
Format2f(x) ==
    IF x.kind = "nan" THEN <<"n", "a", "n">>
    ELSE IF x.kind = "inf" THEN SignOf(x) \o <<"i", "n", "f">>
    ELSE SignOf(x) \o FixedTwo(Hundredths(x))

L_order == <<"O", "r", "d", "e", "r", ":", " ">>
L_url_label == <<"U", "R", "L", ":", " ">>
L_date == <<"D", "a", "t", "e", ":", " ">>
L_payment == <<"P", "a", "y", "m", "e", "n", "t", ":", " ">>
L_name == <<"N", "a", "m", "e", ":", " ">>
L_subtotal_label == <<"S", "u", "b", "t", "o", "t", "a", "l", ":", " ">>
L_discount_label == <<"D", "i", "s", "c", "o", "u", "n", "t", ":", " ">>
L_delivery_label == <<"D", "e", "l", "i", "v", "e", "r", "y", ":", " ">>
L_taxes_label == <<"T", "a", "x", "e", "s", ":", " ">>
L_total_label == <<"T", "o", "t", "a", "l", ":", " ">>
L_items == <<"I", "t", "e", "m", "s", ":">>
L_item == <<"-", " ">>
L_qty == <<" ", "|", " ", "Q", "t", "y", ":", " ">>
L_price == <<" ", "|", " ", "P", "r", "i", "c", "e", ":", " ">>
L_txt == <<".", "t", "x", "t">>
L_html == <<".", "h", "t", "m", "l">>

\* f"- {item.title} | Qty: {item.qty} | Price: {item.price_each:.2f}"
ItemLine(item) ==
    L_item \o item.title \o L_qty \o NatStr(item.qty) \o L_price \o Format2f(item.price_each)

\* `lines`, before the items are appended.
HeaderLines(os) ==
    << L_order \o os.order_no,
       L_url_label \o os.url,
       L_date \o os.date_str,
       L_payment \o os.payment_last4,
       L_name \o os.name,
       L_subtotal_label \o Format2f(os.subtotal),
       L_discount_label \o Format2f(os.discount),
       L_delivery_label \o Format2f(os.delivery),
       L_taxes_label \o Format2f(os.taxes),
       L_total_label \o Format2f(os.total),
       L_items >>

\* `lines`
SummaryLines(os) == HeaderLines(os) \o [k \in 1..Len(os.items) |-> ItemLine(os.items[k])]

RECURSIVE JoinLinesFrom(_, _)
JoinLinesFrom(lines, k) ==
    IF k > Len(lines) THEN <<>>
    ELSE IF k = Len(lines) THEN lines[k]
    ELSE lines[k] \o <<"\n">> \o JoinLinesFrom(lines, k + 1)

\* "\n".join(lines)
JoinLines(lines) == JoinLinesFrom(lines, 1)

\* The file that _write_order_files writes: OUTPUT_DIR / f"{order_no}.txt".
write_order_files(os) ==
    [path |-> os.order_no \o L_txt, text |-> JoinLines(SummaryLines(os))]

(***************************************************************************)
(* walmart_fetcher.fetch_orders                                            *)
(***************************************************************************)
\* WALMART_ORDER_URL_TEMPLATE.format(order_no=order_no)
L_url_template == <<"h", "t", "t", "p", "s", ":", "/", "/", "w", "w", "w", ".", "w", "a", "l", "m", "a", "r", "t", ".", "c", "a", "/", "e", "n", "/", "o", "r", "d", "e", "r", "s", "/">>
OrderUrl(order_no) == L_url_template \o order_no

\* OrderItem(title, qty, price_each)
OrderItem(title, qty, price_each) == [title |-> title, qty |-> qty, price_each |-> price_each]

\* What fetch_orders did: a statement of the loop body, and idx.
Event(step, idx) == [step |-> step, idx |-> idx]

\* Where the loop goes for idx: its body, or past the loop to ctx.close().
LoopHead(order_numbers, idx) == IF idx <= Len(order_numbers) THEN "goto" ELSE "close"

\* The loop body goes from txt to the next order: html is not written.
StepAfter_TxtOnly(step) ==
    CASE step = "goto" -> "robot"
      [] step = "robot" -> "login"
      [] step = "login" -> "wait"
      [] step = "wait" -> "content"
      [] step = "content" -> "parse"
      [] step = "parse" -> "items"
      [] step = "items" -> "txt"
      [] step = "txt" -> "next"
      [] step = "html" -> "next"

\* The statement that follows `step` in the loop body, "next" at its end.
StepAfter(step) ==
    CASE step = "goto" -> "robot"
      [] step = "robot" -> "login"
      [] step = "login" -> "wait"
      [] step = "wait" -> "content"
      [] step = "content" -> "parse"
      [] step = "parse" -> "items"
      [] step = "items" -> "txt"
      [] step = "txt" -> "html"
      [] step = "html" -> "next"

\* The order at hand.
OrderNo == fo_order_numbers[fo_idx]

\* `continue`, and the end of the loop body: the next order, if any.
NextOrder ==
    /\ fo_idx' = fo_idx + 1
    /\ fo_pc' = LoopHead(fo_order_numbers, fo_idx + 1)

\* `step` is done: on to the statement after it.
Moved(step) ==
    IF StepAfter(step) = "next" THEN NextOrder
    ELSE fo_pc' = StepAfter(step) /\ fo_idx' = fo_idx

\* `step` is done.
Did(step) == fo_log' = Append(fo_log, Event(step, fo_idx))

\* An exception that nothing catches leaves the loop and fetch_orders.
Raised ==
    /\ fo_pc' = "raised"
    /\ fo_idx' = fo_idx
    /\ fo_log' = Append(fo_log, Event("raised", fo_idx))

\* The name of the DOM whenever there is one.
WithDomName_Always(order_summary, dom_name) ==
    IF dom_name # <<>> THEN [order_summary EXCEPT !.name = dom_name] ELSE order_summary

\* The summary with the name of the DOM, when the text gave none.
WithDomName(order_summary, dom_name) ==
    IF order_summary.name = <<>> /\ dom_name # <<>>
    THEN [order_summary EXCEPT !.name = dom_name]
    ELSE order_summary

\* The file of the raw markup: OUTPUT_DIR / f"{order_no}.html".
HtmlFile(order_no, html) == [path |-> order_no \o L_html, text |-> html]

(***************************************************************************)
(* outlook_fetcher._parse_period and main.run_pipeline                     *)
(***************************************************************************)
\* datetime.MINYEAR and datetime.MAXYEAR: dt.datetime raises ValueError for
\* a year outside them.
MINYEAR == 1
MAXYEAR == 9999

\* re.fullmatch(r"(\d{4})-(\d{1,2})", s)
PeriodMatches(s) ==
    /\ Len(s) \in {6, 7}
    /\ \A k \in 1..4 : IsDigitAt(s, k)
    /\ s[5] = "-"
    /\ \A k \in 6..Len(s) : IsDigitAt(s, k)

\* Every month passes.
MonthInRange_Any(month) == TRUE

\* 1 <= month <= 12
MonthInRange(month) == 1 <= month /\ month <= 12

NoPeriod == [kind |-> "none", start |-> <<0, 0>>, end |-> <<0, 0>>]
PeriodRaises == [kind |-> "raises", start |-> <<0, 0>>, end |-> <<0, 0>>]

\* dt.datetime(year, ...) raises ValueError.
DatetimeRaises(year) == year < MINYEAR \/ year > MAXYEAR

\* The first day of the month and the first day of the next month.
PeriodOf(year, month) ==
    IF ~MonthInRange(month) THEN NoPeriod
    ELSE IF DatetimeRaises(year) THEN PeriodRaises
    ELSE IF month = 12
         THEN IF DatetimeRaises(year + 1) THEN PeriodRaises
              ELSE [kind |-> "ok", start |-> <<year, month>>, end |-> <<year + 1, 1>>]
         ELSE [kind |-> "ok", start |-> <<year, month>>, end |-> <<year, month + 1>>]

\* _parse_period after period.strip().
ParseStripped(s) ==
    IF PeriodMatches(s) THEN PeriodOf(NatOf(SubSeq(s, 1, 4)), NatOf(SubSeq(s, 6, Len(s))))
    ELSE NoPeriod

\* _parse_period(period): the two dates, None, or the ValueError of datetime.
parse_period(period) == ParseStripped(Strip(period))

(***************************************************************************)
(* reference/outlook_fetcher._parse_period                                 *)
(***************************************************************************)
\* start = datetime(year, month, 1), end = datetime(year + (month // 12),
\* (month % 12) + 1, 1), after the range test of the month.
ReferencePeriodOf(year, month) ==
    IF ~(1 <= month /\ month <= 12) THEN NoPeriod
    ELSE IF DatetimeRaises(year) \/ DatetimeRaises(year + (month \div 12)) THEN PeriodRaises
    ELSE [kind |-> "ok", start |-> <<year, month>>,
          end |-> <<year + (month \div 12), (month % 12) + 1>>]

\* _parse_period of the reference after period.strip().
ReferenceStripped(s) ==
    IF PeriodMatches(s)
    THEN ReferencePeriodOf(NatOf(SubSeq(s, 1, 4)), NatOf(SubSeq(s, 6, Len(s))))
    ELSE NoPeriod

\* _parse_period(period) of the reference.
reference_parse_period(period) == ReferenceStripped(Strip(period))

\* run_pipeline printed `line`.
Printed(line) == rp_log' = Append(rp_log, line)

\* sys.exit(status), and the return of main with status 0.
Exit(status) == rp_pc' = "exited" /\ rp_exit' = status

\* An exception that nothing catches: the traceback, and status 1.
Crash == Printed("traceback") /\ Exit(1)

\* The run goes on to `stage`.
GoOn(line, stage) == Printed(line) /\ rp_pc' = stage /\ rp_exit' = rp_exit

(***************************************************************************)
(* The functions that a specification does not call are at rest.           *)
(***************************************************************************)
\* items=None
NoItems == [is_none |-> TRUE, msgs |-> <<>>]

\* subject_exact=None
NoFilter == [given |-> FALSE, text |-> <<>>]

DecodeIdle == dec_s = <<>> /\ dec_pc = "idle" /\ dec_variants = <<>>
UnwrapIdle == unw_s = <<>> /\ unw_pc = "idle" /\ unw_out = <<>>
ExtractIdle ==
    ext_items = NoItems /\ ext_subject_exact = NoFilter /\ ext_pc = "idle" /\ ext_numbers = <<>>

\* No file.
NoFile == [path |-> <<>>, text |-> <<>>]

\* The folder before the run.
NoEnv == [items |-> NoItems]

WriteIdle == wof_summary = NoSummary /\ wof_pc = "idle" /\ wof_file = NoFile
FetchIdle ==
    /\ fo_order_numbers = <<>> /\ fo_idx = 0 /\ fo_pc = "idle"
    /\ fo_log = <<>> /\ fo_files = {} /\ fo_html = <<>> /\ fo_summary = NoSummary
PipelineIdle ==
    /\ rp_period = <<>> /\ rp_env = NoEnv /\ rp_order_numbers = <<>>
    /\ rp_pc = "idle" /\ rp_log = <<>> /\ rp_exit = NotExited
PeriodIdle ==
    pp_period = <<>> /\ pp_pc = "idle" /\ pp_result = NoPeriod /\ pp_reference = NoPeriod

(***************************************************************************)
(* Specification SpecMoney: money_to_float on every string of at most      *)
(* MaxMoneyTokens tokens.                                                  *)
(***************************************************************************)
MaxMoneyTokens == 4

MoneyTokens ==
    { <<"$">>, <<",">>, <<"(">>, <<")">>, <<"-">>, <<" ">>,
      <<"5", ".", "0", "0">>,
      <<"1", "2", ".", "3", "4">>,
      <<"1", ",", "2", "3", "4", ".", "5", "6">>,
      <<"n", "a", "n">>,
      <<"1", "e", "9", "9", "9">> }

InitMoney ==
    /\ mtf_value \in {Concat(ts) : ts \in TokenSeqs(MoneyTokens, MaxMoneyTokens)}
    /\ mtf_result = NotCalled
    /\ ParseIdle /\ DecodeIdle /\ UnwrapIdle /\ ExtractIdle /\ WriteIdle /\ FetchIdle /\ PipelineIdle /\ PeriodIdle

CallMoneyToFloat ==
    /\ mtf_result = NotCalled
    /\ mtf_result' = money_to_float(mtf_value)
    /\ UNCHANGED <<mtf_value, parseVars, decodeVars, unwrapVars, extractVars,
                 writeVars, fetchVars, pipelineVars, periodVars>>

NextMoney == CallMoneyToFloat

SpecMoney == InitMoney /\ [][NextMoney]_vars

MoneyCalled == mtf_result # NotCalled

\* `cleaned` as money_to_float has it before it looks for negation markers.
CleanedOf(value) == RemoveChars(Strip(value), {"$", ","} \cup Whitespace)

\* A digits/decimal-point number: digits, optionally a point and more digits.
IsPlainNumber(s) ==
    LET dot == FirstOf(s, {"."}) IN
    /\ dot > 1
    /\ AllDigits(SubSeq(s, 1, dot - 1))
    /\ AllDigits(Drop(s, dot + 1))
    /\ dot <= Len(s) => dot < Len(s)

\* The value a digits/decimal-point number denotes.
PlainValue(s) ==
    LET dot == FirstOf(s, {"."}) IN
    Normal(FALSE, NatOf(SubSeq(s, 1, dot - 1) \o Drop(s, dot + 1)), 0 - Len(Drop(s, dot + 1)))

\* C3: money_to_float returns, for every string, a finite number.
C3_AlwaysFinite == MoneyCalled => IsFinite(mtf_result)

\* C4: an input that carries a negation marker (parentheses, a leading minus
\* sign, or both) never gives a positive result.
C4_NegationIdempotent ==
    (MoneyCalled /\ (HasParens(CleanedOf(mtf_value)) \/ HasMinus(CleanedOf(mtf_value))))
        => ~IsPositive(mtf_result)

\* What is left of the cleaned text once its negation markers are taken off.
MoneyRemainder(value) == StripMinus(StripParens(CleanedOf(value)))

MoneyMarked(value) ==
    HasParens(CleanedOf(value)) \/ HasMinus(StripParens(CleanedOf(value)))

\* C5: money_to_float returns the signed decimal value the text denotes, and
\* exactly zero for the empty string and for every text whose remainder is not
\* a digits/decimal-point number.
C5_DenotedValueOrZero ==
    MoneyCalled =>
        LET r == MoneyRemainder(mtf_value) IN
        IF IsPlainNumber(r)
        THEN NumEq(mtf_result,
                   IF MoneyMarked(mtf_value) THEN Neg(PlainValue(r)) ELSE PlainValue(r))
        ELSE NumEq(mtf_result, Zero)

\* The part of C5 that the code keeps: plain numbers get their signed value.
C5_PlainNumbersDenoted ==
    (MoneyCalled /\ IsPlainNumber(MoneyRemainder(mtf_value))) =>
        NumEq(mtf_result,
              IF MoneyMarked(mtf_value)
              THEN Neg(PlainValue(MoneyRemainder(mtf_value)))
              ELSE PlainValue(MoneyRemainder(mtf_value)))

(***************************************************************************)
(* Specification SpecParse: parse_order_page on every page text of at most *)
(* MaxPhrases phrases, joined by single spaces.                            *)
(***************************************************************************)
MaxPhrases == 3

P_subtotal  == <<"S", "u", "b", "t", "o", "t", "a", "l", " ", "$", "7", "5", ".", "7", "1">>
P_multisave == <<"M", "u", "l", "t", "i", "s", "a", "v", "e", " ", "D", "i", "s", "c", "o", "u", "n", "t", " ", "$", "0", ".", "7", "6">>
P_savings   == <<"S", "a", "v", "i", "n", "g", "s", " ", "-", "$", "0", ".", "7", "6">>
P_member    == <<"M", "e", "m", "b", "e", "r", " ", "D", "i", "s", "c", "o", "u", "n", "t", " ", "$", "2">>
P_taxes_total ==
    <<"T", "a", "x", "e", "s", " ", "$", "5", ".", "0", "0", " ",
      "T", "o", "t", "a", "l", " ", "$", "8", "0", ".", "7", "1">>
P_delivery  == <<"D", "e", "l", "i", "v", "e", "r", "y", " ", "f", "e", "e", " ", "$", "5", ".", "0", "0">>
P_shipping  == <<"S", "h", "i", "p", "p", "i", "n", "g", " ", "$", "3", ".", "5", "0">>

P_total_upper == <<"T", "O", "T", "A", "L", " ", "9", ".", "9", "9">>

DiscountPhrases == {P_multisave, P_savings, P_member}
DeliveryPhrases == {P_delivery, P_shipping}
PagePhrases ==
    {P_subtotal, P_taxes_total, P_total_upper} \cup DiscountPhrases \cup DeliveryPhrases

RECURSIVE JoinFrom(_, _)
JoinFrom(ps, k) ==
    IF k > Len(ps) THEN <<>>
    ELSE IF k = Len(ps) THEN ps[k]
    ELSE ps[k] \o <<" ">> \o JoinFrom(ps, k + 1)

\* The visible text: the phrases with one space between them.
JoinPhrases(ps) == JoinFrom(ps, 1)

\* An order number and the URL of its page.
A_order_no == <<"1", "2", "3", "4", "5", "6">>
A_url == <<"h", "t", "t", "p", "s", ":", "/", "/", "w", "w", "w", ".", "w", "a", "l", "m", "a", "r",
      "t", ".", "c", "a", "/", "e", "n", "/", "o", "r", "d", "e", "r", "s", "/", "1", "2", "3",
      "4", "5", "6">>

InitParse ==
    /\ page_phrases \in TokenSeqs(PagePhrases, MaxPhrases)
    /\ parse_args = [order_no |-> A_order_no, url |-> A_url]
    /\ parse_pc = "start"
    /\ parse_result = NoSummary
    /\ MoneyIdle /\ DecodeIdle /\ UnwrapIdle /\ ExtractIdle /\ WriteIdle /\ FetchIdle /\ PipelineIdle /\ PeriodIdle

CallParseOrderPage ==
    /\ parse_pc = "start"
    /\ parse_result' = parse_order_page(JoinPhrases(page_phrases), parse_args.order_no, parse_args.url)
    /\ parse_pc' = "done"
    /\ UNCHANGED <<page_phrases, parse_args, moneyVars, decodeVars, unwrapVars, extractVars,
                 writeVars, fetchVars, pipelineVars, periodVars>>

NextParse == CallParseOrderPage

SpecParse == InitParse /\ [][NextParse]_vars

ParseDone == parse_pc = "done"

\* The positions of the phrases of page_phrases that belong to `set`.
PhrasesIn(set) == {k \in 1..Len(page_phrases) : page_phrases[k] \in set}

\* The first phrase of page_phrases that belongs to `set` (which has one).
FirstPhraseIn(set) ==
    page_phrases[CHOOSE k \in PhrasesIn(set) : \A j \in PhrasesIn(set) : k <= j]

\* The magnitude a discount phrase prints, and the amount a delivery phrase prints.
PrintedMagnitude(phrase) ==
    IF phrase = P_member THEN Finite(FALSE, 2, 0) ELSE Finite(FALSE, 76, -2)
PrintedDelivery(phrase) ==
    IF phrase = P_delivery THEN Finite(FALSE, 5, 0) ELSE Finite(FALSE, 35, -1)

C2_DeliveryDefault ==
    ParseDone =>
        /\ PhrasesIn(DeliveryPhrases) = {} => parse_result.delivery = Zero
        /\ Cardinality(PhrasesIn(DeliveryPhrases)) = 1 =>
               NumEq(parse_result.delivery,
                     PrintedDelivery(FirstPhraseIn(DeliveryPhrases)))

\* 'Subtotal $75.71 Shipping $3.50 Taxes $5.00 Total $80.71' gave 3.50.
C2_Witness ==
    /\ ParseDone
    /\ page_phrases = <<P_subtotal, P_shipping, P_taxes_total>>
    /\ parse_result.delivery = Finite(FALSE, 35, -1)

(***************************************************************************)
(* Specification SpecDecode: _decode_candidates on every string of at most *)
(* MaxDecodeTokens tokens.                                                 *)
(***************************************************************************)
MaxDecodeTokens == 3

DecodeTokens ==
    { <<"&", "a", "m", "p", ";">>,
      <<"&", "a", "m", "p">>,
      <<"&">>,
      <<";">>,
      <<"%", "2", "5", "2", "5">>,
      <<"%">>,
      <<"2", "F">>,
      <<"/">> }

InitDecode ==
    /\ dec_s \in {Concat(ts) : ts \in TokenSeqs(DecodeTokens, MaxDecodeTokens)}
    /\ dec_pc = "start"
    /\ dec_variants = <<>>
    /\ MoneyIdle /\ ParseIdle /\ UnwrapIdle /\ ExtractIdle /\ WriteIdle /\ FetchIdle /\ PipelineIdle /\ PeriodIdle

CallDecodeCandidates ==
    /\ dec_pc = "start"
    /\ dec_variants' = decode_candidates(dec_s)
    /\ dec_pc' = "done"
    /\ UNCHANGED <<dec_s, moneyVars, parseVars, unwrapVars, extractVars,
                 writeVars, fetchVars, pipelineVars, periodVars>>

NextDecode == CallDecodeCandidates

SpecDecode == InitDecode /\ [][NextDecode]_vars

DecodeDone == dec_pc = "done"

\* s, its unescaped form h, and the three successive percent-decodings of h.
RoundsOf(s, h) == <<s, h, unquote(h), unquote(unquote(h)), unquote(unquote(unquote(h)))>>

RECURSIVE FirstOccurrences(_, _)
\* seq from k on, without the elements that equal an earlier element of seq.
FirstOccurrences(seq, k) ==
    IF k > Len(seq) THEN <<>>
    ELSE (IF \E j \in 1..(k - 1) : seq[j] = seq[k] THEN <<>> ELSE <<seq[k]>>)
             \o FirstOccurrences(seq, k + 1)

NoDuplicates(seq) == \A i, j \in 1..Len(seq) : i # j => seq[i] # seq[j]

\* The sequence the Decoder contract describes for s, with its consequences:
\* it starts with s, has no two equal strings and at most 5 entries.
IsDecoderSequence(variants, s) ==
    /\ variants = FirstOccurrences(RoundsOf(s, html_unescape(s)), 1)
    /\ variants # <<>>
    /\ variants[1] = s
    /\ NoDuplicates(variants)
    /\ Len(variants) <= 5

\* C6 as stated: for every input string s, _decode_candidates(s) is s, then h
\* when it differs from s, then the three percent-decodings of h that are new;
\* it starts with s, has no two equal strings and at most 5 entries.
C6_EveryStringFirst == DecodeDone => IsDecoderSequence(dec_variants, dec_s)

\* C6 (amended): the same for every non-empty input string; for the empty
\* string the result is the empty sequence.
C6_NonEmptyStringFirst ==
    DecodeDone =>
        IF dec_s = <<>> THEN dec_variants = <<>>
        ELSE IsDecoderSequence(dec_variants, dec_s)

\* An entity-escaped, triple percent-encoded slash gives all five variants.
C6_Witness ==
    /\ DecodeDone
    /\ dec_s = <<"&", "a", "m", "p", ";", "%", "2", "5", "2", "5", "2", "F">>
    /\ dec_variants = << dec_s,
                         <<"&", "%", "2", "5", "2", "5", "2", "F">>,
                         <<"&", "%", "2", "5", "2", "F">>,
                         <<"&", "%", "2", "F">>,
                         <<"&", "/">> >>

(***************************************************************************)
(* Specification SpecUnwrap: _extract_urls_from_safelinks on every text of *)
(* at most MaxUrlTokens pieces.                                            *)
(***************************************************************************)
MaxUrlTokens == 3

\* A redirector URL without a url parameter.
U_wrapper ==
    <<"h", "t", "t", "p", "s", ":", "/", "/", "n", "a", "m", ".", "s", "a", "f", "e", "l", "i",
      "n", "k", "s", ".", "p", "r", "o", "t", "e", "c", "t", "i", "o", "n", ".", "o", "u", "t",
      "l", "o", "o", "k", ".", "c", "o", "m", "/", "?", "d", "a", "t", "a", "=", "1">>
U_url_param == <<"&", "u", "r", "l", "=">>
\* The target https://www.walmart.ca/en/orders/123456, encoded once.
U_target ==
    <<"h", "t", "t", "p", "s", "%", "3", "A", "%", "2", "F", "%", "2", "F", "w", "w", "w", ".",
      "w", "a", "l", "m", "a", "r", "t", ".", "c", "a", "%", "2", "F", "e", "n", "%", "2", "F",
      "o", "r", "d", "e", "r", "s", "%", "2", "F", "1", "2", "3", "4", "5", "6">>
\* /1 under five layers of encoding.
U_deep ==
    <<"%", "2", "5", "2", "5", "2", "5", "2", "5", "2", "F", "1">>
U_plain ==
    <<"h", "t", "t", "p", ":", "/", "/", "w", ".", "c", "a", "/", "o", "r", "d", "e", "r", "s",
      "/", "7">>
\* A URL whose netloc urlparse rejects.
U_bracket ==
    <<"h", "t", "t", "p", ":", "/", "/", "[", "x">>
U_decoded_target ==
    <<"h", "t", "t", "p", "s", ":", "/", "/", "w", "w", "w", ".", "w", "a", "l", "m", "a", "r",
      "t", ".", "c", "a", "/", "e", "n", "/", "o", "r", "d", "e", "r", "s", "/", "1", "2", "3",
      "4", "5", "6">>

UrlTokens ==
    { U_wrapper, U_url_param, U_target, U_deep, U_plain, U_bracket, <<" ">>, <<")", ".">> }

InitUnwrap ==
    /\ unw_s \in {Concat(ts) : ts \in TokenSeqs(UrlTokens, MaxUrlTokens)}
    /\ unw_pc = "start"
    /\ unw_out = <<>>
    /\ MoneyIdle /\ ParseIdle /\ DecodeIdle /\ ExtractIdle /\ WriteIdle /\ FetchIdle /\ PipelineIdle /\ PeriodIdle

CallExtractUrls ==
    /\ unw_pc = "start"
    /\ unw_out' = extract_urls_from_safelinks(unw_s)
    /\ unw_pc' = "done"
    /\ UNCHANGED <<unw_s, moneyVars, parseVars, decodeVars, extractVars,
                 writeVars, fetchVars, pipelineVars, periodVars>>

NextUnwrap == CallExtractUrls

SpecUnwrap == InitUnwrap /\ [][NextUnwrap]_vars

UnwrapDone == unw_pc = "done"

RECURSIVE MatchesFrom(_, _)
\* The URL-start matches of s from position j on, trimmed (j = 0: none).
MatchesAt(s, j) ==
    IF j = 0 THEN <<>>
    ELSE <<RStripChars(SubSeq(s, j, MatchEnd(s, j) - 1), TrimChars)>>
             \o MatchesFrom(s, MatchEnd(s, j))

MatchesFrom(s, i) == MatchesAt(s, FirstUrlStart(s, i, Len(s)))

RECURSIVE FullyUnquoted(_)
\* x percent-decoded until nothing is left to decode.
FullyUnquoted(x) == IF unquote(x) = x THEN x ELSE FullyUnquoted(unquote(x))

RECURSIVE Unquoted(_, _)
\* x percent-decoded n times.
Unquoted(x, n) == IF n = 0 THEN x ELSE Unquoted(unquote(x), n - 1)

\* What the claim asks of the output for one match.
Resolved(url, out) ==
    IF IsSafeLink(url)
    THEN /\ TargetOf(url) # NoMatch => Contains(out, FullyUnquoted(TargetOf(url)))
         /\ ~Contains(out, url)
    ELSE Contains(out, url)

\* C7 as stated: for every URL-start match, the output holds the fully
\* percent-decoded target and not the wrapper when the host is the
\* redirector, and the trimmed URL unchanged otherwise.
C7_EveryMatchResolved ==
    UnwrapDone =>
        \A k \in 1..Len(MatchesFrom(unw_s, 1)) : Resolved(MatchesFrom(unw_s, 1)[k], unw_out)

\* The number of matches before the first one on which urlparse raises.
ParsedMatches(ms) ==
    IF \E k \in 1..Len(ms) : UrlparseRaises(ms[k])
    THEN (CHOOSE k \in 1..Len(ms) :
              UrlparseRaises(ms[k]) /\ \A j \in 1..(k - 1) : ~UrlparseRaises(ms[j])) - 1
    ELSE Len(ms)

\* What one match gives: the url parameter as the query parser decodes it,
\* percent-decoded three more times, for a redirector URL that has one;
\* nothing for a redirector URL without one; the URL itself otherwise.
Resolution(url) ==
    IF ~ContainsText(NetlocOf(url), L_safelinks) THEN <<url>>
    ELSE IF TargetOf(url) = NoMatch THEN <<>>
    ELSE <<Unquoted(TargetOf(url), 3)>>

RECURSIVE Resolutions(_, _, _)
\* The resolutions of ms[k..n], in order.
Resolutions(ms, k, n) ==
    IF k > n THEN <<>> ELSE Resolution(ms[k]) \o Resolutions(ms, k + 1, n)

ResolvedInOrder(ms, out) == out = Resolutions(ms, 1, ParsedMatches(ms))

\* The example of the claim: the redirector URL that wraps U_target.
ExampleWrapper == U_wrapper \o U_url_param \o U_target

ExampleResolved(ms, out) ==
    (\E k \in 1..ParsedMatches(ms) : ms[k] = ExampleWrapper) => Contains(out, U_decoded_target)

\* C7 (amended): the output is, in order, what the matches before the first
\* parsing error give: the decoded target in place of a redirector URL, the
\* trimmed URL otherwise; the wrapped example target comes out verbatim.
C7_ParsedMatchesResolved ==
    UnwrapDone =>
        /\ ResolvedInOrder(MatchesFrom(unw_s, 1), unw_out)
        /\ ExampleResolved(MatchesFrom(unw_s, 1), unw_out)

\* The redirector URL of the example is unwrapped to its target.
C7_Witness ==
    /\ UnwrapDone
    /\ unw_s = ExampleWrapper
    /\ unw_out = <<U_decoded_target>>

(***************************************************************************)
(* Specification SpecExtract: extract_order_numbers_from_items on every    *)
(* collection of at most MaxMessages messages of MessagePool, with every   *)
(* filter of SubjectFilters.                                               *)
(***************************************************************************)
MaxMessages == 2

S_delivered ==
    <<"Y", "o", "u", "r", " ", "W", "a", "l", "m", "a", "r", "t", " ", "o", "r", "d", "e", "r",
      " ", "w", "a", "s", " ", "d", "e", "l", "i", "v", "e", "r", "e", "d">>
S_delivered_variant ==
    <<" ", " ", "y", "o", "u", "r", " ", "w", "a", "l", "m", "a", "r", "t", " ", "O", "R", "D",
      "E", "R", " ", "w", "a", "s", " ", "d", "e", "l", "i", "v", "e", "r", "e", "d", " ">>
S_promo == <<"P", "r", "o", "m", "o">>

B_plain ==
    <<"h", "t", "t", "p", ":", "/", "/", "w", ".", "c", "a", "/", "o", "r", "d", "e", "r", "s",
      "/", "1", "0">>
\* A redirector URL, entity-escaped, whose target is http://w.ca/orders/9.
B_wrapped ==
    <<"h", "t", "t", "p", "s", ":", "/", "/", "n", "a", "m", ".", "s", "a", "f", "e", "l", "i",
      "n", "k", "s", ".", "p", "r", "o", "t", "e", "c", "t", "i", "o", "n", ".", "o", "u", "t",
      "l", "o", "o", "k", ".", "c", "o", "m", "/", "?", "u", "r", "l", "=", "h", "t", "t", "p",
      "%", "3", "A", "%", "2", "F", "%", "2", "F", "w", ".", "c", "a", "%", "2", "F", "o", "r",
      "d", "e", "r", "s", "%", "2", "F", "9", "&", "a", "m", "p", ";", "d", "a", "t", "a", "=",
      "1">>
B_two ==
    <<"h", "t", "t", "p", ":", "/", "/", "w", ".", "c", "a", "/", "O", "r", "d", "e", "r", "s",
      "/", "7", " ", "h", "t", "t", "p", ":", "/", "/", "w", ".", "c", "a", "/", "o", "r", "d",
      "e", "r", "s", "/", "1", "0">>
B_absent ==
    <<"h", "t", "t", "p", ":", "/", "/", "w", ".", "c", "a", "/", "o", "r", "d", "e", "r", "s",
      "/", "8">>
B_zeros ==
    <<"h", "t", "t", "p", ":", "/", "/", "w", ".", "c", "a", "/", "o", "r", "d", "e", "r", "s",
      "/", "0", "0", "7">>

\* A redirector URL whose target hides the / before the number under four
\* levels of percent-encoding: no decoded variant of the body shows /orders/5.
B_deep ==
    <<"h", "t", "t", "p", "s", ":", "/", "/", "n", "a", "m", ".", "s", "a", "f", "e", "l", "i",
      "n", "k", "s", ".", "p", "r", "o", "t", "e", "c", "t", "i", "o", "n", ".", "o", "u", "t",
      "l", "o", "o", "k", ".", "c", "o", "m", "/", "?", "u", "r", "l", "=", "h", "t", "t", "p",
      "%", "3", "A", "%", "2", "F", "%", "2", "F", "w", ".", "c", "a", "%", "2", "F", "o", "r",
      "d", "e", "r", "s", "%", "2", "5", "2", "5", "2", "5", "2", "F", "5">>

Message(subject, html_body, text_body) ==
    [readable |-> TRUE, Subject |-> subject, HTMLBody |-> html_body, Body |-> text_body]

M_plain == Message(Str(S_delivered), Str(B_plain), Str(<<>>))
M_wrapped == Message(Str(S_delivered_variant), None, Str(B_wrapped))
M_promo == Message(Str(S_promo), Str(B_two), None)
M_absent == Message(None, Str(<<>>), Str(B_absent))
M_zeros == Message(Str(S_delivered), Raises, Str(B_zeros))
M_deep == Message(Str(S_promo), Str(B_deep), Str(<<>>))
M_no_subject == Message(Raises, Str(B_absent), Str(<<>>))
M_unreadable == [readable |-> FALSE, Subject |-> Raises, HTMLBody |-> Raises, Body |-> Raises]

MessagePool ==
    {M_plain, M_wrapped, M_promo, M_absent, M_zeros, M_deep, M_no_subject, M_unreadable}

Filter(text) == [given |-> TRUE, text |-> text]

\* None, the empty string, a blank string, and config.EMAIL_SUBJECT_FILTER.
SubjectFilters == {NoFilter, Filter(<<>>), Filter(<<" ">>), Filter(S_delivered)}

InitExtract ==
    /\ ext_items \in {[is_none |-> TRUE, msgs |-> <<>>]}
                      \cup {[is_none |-> FALSE, msgs |-> ms] : ms \in TokenSeqs(MessagePool, MaxMessages)}
    /\ ext_subject_exact \in SubjectFilters
    /\ ext_pc = "start"
    /\ ext_numbers = <<>>
    /\ MoneyIdle /\ ParseIdle /\ DecodeIdle /\ UnwrapIdle /\ WriteIdle /\ FetchIdle /\ PipelineIdle /\ PeriodIdle

CallExtractOrderNumbers ==
    /\ ext_pc = "start"
    /\ ext_numbers' = extract_order_numbers_from_items(ext_items, ext_subject_exact)
    /\ ext_pc' = "done"
    /\ UNCHANGED <<ext_items, ext_subject_exact, moneyVars, parseVars, decodeVars, unwrapVars,
                 writeVars, fetchVars, pipelineVars, periodVars>>

NextExtract == CallExtractOrderNumbers

SpecExtract == InitExtract /\ [][NextExtract]_vars

ExtractDone == ext_pc = "done"

\* For digit strings: a comes before b in string order.  With both padded
\* with zeros on the right to the same length, a's number is the smaller, or
\* the numbers are equal and a is the shorter.
DigitsBefore(a, b) ==
    \/ NatOf(a) * Pow10(Len(b)) < NatOf(b) * Pow10(Len(a))
    \/ NatOf(a) * Pow10(Len(b)) = NatOf(b) * Pow10(Len(a)) /\ Len(a) < Len(b)

\* C8: the sequence returned has no duplicates, is sorted in ascending string
\* order, and each of its elements is a non-empty string of digits.
C8_SortedUniqueDigits ==
    ExtractDone =>
        /\ NoDuplicates(ext_numbers)
        /\ \A k \in 1..Len(ext_numbers) : ext_numbers[k] # <<>> /\ AllDigits(ext_numbers[k])
        /\ \A i, j \in 1..Len(ext_numbers) : i < j => DigitsBefore(ext_numbers[i], ext_numbers[j])

\* Two messages that share the number 10: it is returned once.
C8_Witness ==
    /\ ExtractDone
    /\ ext_items.msgs = <<M_plain, M_promo>>
    /\ ext_subject_exact = NoFilter
    /\ ext_numbers = << <<"1", "0">>, <<"7">> >>

\* C9 as stated: the sequence returned is in ascending numeric order as well:
\* for a before b, int(a) <= int(b).
C9_NumericOrder ==
    ExtractDone =>
        \A i, j \in 1..Len(ext_numbers) :
            i < j => /\ StrLess(ext_numbers[i], ext_numbers[j])
                     /\ NatOf(ext_numbers[i]) <= NatOf(ext_numbers[j])

\* C9 (amended): the sequence returned is in ascending string order; that is
\* ascending numeric order for identifiers with the same number of digits.
C9_StringOrder ==
    ExtractDone =>
        \A i, j \in 1..Len(ext_numbers) :
            i < j => /\ StrLess(ext_numbers[i], ext_numbers[j])
                     /\ Len(ext_numbers[i]) = Len(ext_numbers[j])
                            => NatOf(ext_numbers[i]) <= NatOf(ext_numbers[j])

\* Identifiers of one and of two digits: 10 comes before 9.
C9_Witness ==
    /\ ExtractDone
    /\ ext_items.msgs = <<M_wrapped, M_plain>>
    /\ ext_numbers = << <<"1", "0">>, <<"9">> >>

\* The identifiers that occur in a message: those of its two bodies.
IdentifiersOf(m) == NumbersOfBodies(TextOf(m.HTMLBody), TextOf(m.Body))

\* The subject, trimmed and compared case-insensitively, equals the trimmed
\* filter.
SameSubject(subject, filter) == Lower(Strip(subject)) = Lower(Strip(filter))

Elements(seq) == {seq[k] : k \in 1..Len(seq)}

MessagesOf(items) == Elements(items.msgs)

\* C10 as stated: when a filter is given, only the messages that have a
\* subject equal to it (trimmed, case-insensitive) contribute identifiers;
\* without a filter every message contributes.
C10_GivenFilterSelects ==
    ExtractDone =>
        Elements(ext_numbers) =
            UNION { IdentifiersOf(m) :
                      m \in { x \in MessagesOf(ext_items) :
                                ext_subject_exact.given =>
                                    /\ x.Subject.kind = "str"
                                    /\ SameSubject(x.Subject.text, ext_subject_exact.text) } }

\* C10 (amended): a message whose subject cannot be read contributes nothing.
\* Of the others, when a non-empty filter is given, only the messages whose
\* subject (the empty string when absent) equals it (trimmed,
\* case-insensitive) contribute identifiers; without a filter, or with the
\* empty string as filter, each of them contributes.
C10_NonEmptyFilterSelects ==
    ExtractDone =>
        Elements(ext_numbers) =
            UNION { IdentifiersOf(m) :
                      m \in { x \in MessagesOf(ext_items) :
                                /\ x.readable /\ x.Subject.kind # "raise"
                                /\ (ext_subject_exact.given /\ ext_subject_exact.text # <<>>) =>
                                       SameSubject(TextOf(x.Subject), ext_subject_exact.text) } }

\* With the filter, the message with another subject gives nothing, and the
\* one whose subject differs in case and blanks gives its 9.
C10_Witness ==
    /\ ExtractDone
    /\ ext_items.msgs = <<M_promo, M_wrapped>>
    /\ ext_subject_exact = Filter(S_delivered)
    /\ ext_numbers = << <<"9">> >>

\* The scan reaches the bodies of the message: the message and its subject
\* can be read, and the filter keeps it.
Kept(m, filter) ==
    /\ m.readable /\ m.Subject.kind # "raise"
    /\ (filter.given /\ filter.text # <<>>) => SameSubject(TextOf(m.Subject), filter.text)

\* Something of the message cannot be read.
Fails(m) ==
    \/ ~m.readable
    \/ \E field \in {m.Subject, m.HTMLBody, m.Body} : field.kind = "raise"

\* The identifiers of one body alone; none when it cannot be read.
BodyIdentifiers(field) ==
    IF field.kind = "str" THEN NumbersOfBodies(field.text, <<>>) ELSE {}

\* C11: when a message of the collection fails (the item, its subject or one
\* of its bodies cannot be read), the identifiers of every message that is
\* kept, before and after it, are returned all the same; of a message with
\* one unreadable body, those of the other body are returned.
C11_FailureDoesNotAbort ==
    (ExtractDone /\ \E m \in MessagesOf(ext_items) : Fails(m)) =>
        \A i \in 1..Len(ext_items.msgs) :
            Kept(ext_items.msgs[i], ext_subject_exact) =>
                (BodyIdentifiers(ext_items.msgs[i].HTMLBody)
                    \cup BodyIdentifiers(ext_items.msgs[i].Body)) \subseteq Elements(ext_numbers)

\* After a message whose subject cannot be read comes one whose HTML body
\* cannot be read: the 007 of its text body is returned.
C11_Witness ==
    /\ ExtractDone
    /\ ext_items.msgs = <<M_no_subject, M_zeros>>
    /\ ext_subject_exact = Filter(S_delivered)
    /\ ext_numbers = << <<"0", "0", "7">> >>

\* The ends e of the digit group that starts at s[k]: s[k..e] are digits and
\* no digit follows.
GroupEnds(s, k) ==
    {e \in k..Len(s) : AllDigits(SubSeq(s, k, e)) /\ ~IsDigitAt(s, e + 1)}

\* The digit groups that /orders/<digits> captures in s, in any case of the
\* letters.
MatchesIn(s) ==
    UNION { {SubSeq(s, k + Len(L_orders), e) : e \in GroupEnds(s, k + Len(L_orders))} :
              k \in {j \in 1..(Len(s) - Len(L_orders)) :
                        Lower(SubSeq(s, j, j + Len(L_orders) - 1)) = L_orders} }

\* The decoded variants of the two bodies of a message.
BodyVariants(m) ==
    Elements(decode_candidates(TextOf(m.HTMLBody))) \cup Elements(decode_candidates(TextOf(m.Body)))

\* The URLs that the link unwrapper emits from a set of strings.
UnwrappedFrom(strings) == UNION {Elements(extract_urls_from_safelinks(v)) : v \in strings}

\* The pool of a message: the variants of its bodies, and the decoded
\* variants of every URL emitted from one of them.
PoolOf(m) ==
    BodyVariants(m)
        \cup UNION {Elements(decode_candidates(u)) : u \in UnwrappedFrom(BodyVariants(m))}

\* C12: the result holds exactly the digit groups that the pattern
\* /orders/<digits> captures in a string of the pool of a message that is
\* kept.
C12_ExactlyPoolMatches ==
    ExtractDone =>
        Elements(ext_numbers) =
            UNION { UNION {MatchesIn(s) : s \in PoolOf(m)} :
                      m \in {x \in MessagesOf(ext_items) : Kept(x, ext_subject_exact)} }

\* The identifier 5 occurs in no variant of the body, only in the target of
\* the redirector URL, and is returned.
C12_Witness ==
    /\ ExtractDone
    /\ ext_items.msgs = <<M_deep>>
    /\ \A s \in BodyVariants(M_deep) : MatchesIn(s) = {}
    /\ ext_numbers = << <<"5">> >>

(***************************************************************************)
(* Specification SpecPage: parse_order_page on every page text of at most  *)
(* MaxTextPhrases phrases of TextPhrases, joined by single spaces, for     *)
(* each pair of arguments of PageArgs.                                     *)
(***************************************************************************)
MaxTextPhrases == 2

T_delivered == <<"D", "e", "l", "i", "v", "e", "r", "e", "d", " ", "o", "n", " ", "O", "c", "t", " ", "1",
      "9">>
T_header == <<"N", "o", "v", " ", "2", ",", " ", "2", "0", "2", "5">>
T_order == <<"O", "r", "d", "e", "r", "#", "1", "2", "3", "4", "5", "6">>
T_visa == <<"P", "a", "y", "m", "e", "n", "t", " ", "m", "e", "t", "h", "o", "d", " ", "V", "i", "s",
      "a">>
T_ending == <<"E", "n", "d", "i", "n", "g", " ", "i", "n", " ", "1", "5", "2", "9">>
T_ending_upper == <<"E", "N", "D", "I", "N", "G", " ", "I", "N", " ", "0", "0", "4", "2">>
T_address == <<"A", "d", "d", "r", "e", "s", "s", " ", "J", "o", "h", "n", " ", "S", "m", "i", "t", "h">>

DatePhrases == {T_delivered, T_header}
BrandPhrases == {T_visa}
EndingPhrases == {T_ending, T_ending_upper}
NamePhrases == {T_address}
TextPhrases ==
    DatePhrases \cup BrandPhrases \cup EndingPhrases \cup NamePhrases \cup {T_order, P_subtotal}

PageArgs ==
    { [order_no |-> A_order_no, url |-> A_url],
      [order_no |-> <<"7">>, url |-> <<>>] }

InitPage ==
    /\ page_phrases \in TokenSeqs(TextPhrases, MaxTextPhrases)
    /\ parse_args \in PageArgs
    /\ parse_pc = "start"
    /\ parse_result = NoSummary
    /\ MoneyIdle /\ DecodeIdle /\ UnwrapIdle /\ ExtractIdle /\ WriteIdle /\ FetchIdle /\ PipelineIdle /\ PeriodIdle

SpecPage == InitPage /\ [][NextParse]_vars

\* The four digits that an 'Ending in' phrase prints.
PrintedLast4(phrase) ==
    IF phrase = T_ending THEN <<"1", "5", "2", "9">> ELSE <<"0", "0", "4", "2">>

\* C13: when the page has an 'Ending in <4 digits>', the payment display is
\* **** and the four digits of one, with or without a brand on the page; when
\* it has neither a brand nor an 'Ending in', the display is N/A.
C13_PaymentDisplay ==
    ParseDone =>
        /\ PhrasesIn(EndingPhrases) # {} =>
               parse_result.payment_last4 \in
                   { <<"*", "*", "*", "*">> \o PrintedLast4(page_phrases[k]) :
                       k \in PhrasesIn(EndingPhrases) }
        /\ (PhrasesIn(EndingPhrases) = {} /\ PhrasesIn(BrandPhrases) = {}) =>
               parse_result.payment_last4 = <<"N", "/", "A">>

\* 'Ending in 1529' on a page without a brand gave ****1529.
C13_Witness ==
    /\ ParseDone
    /\ page_phrases = <<T_address, T_ending>>
    /\ parse_result.payment_last4 = <<"*", "*", "*", "*", "1", "5", "2", "9">>

\* C14: the OrderSummary returned holds the arguments order_no and url as
\* they were passed and an empty item sequence; the date and the name are
\* empty and the payment is N/A when the page does not print them, and a
\* money field that the page does not print is zero.
C14_CompleteWithDefaults ==
    ParseDone =>
        /\ DOMAIN parse_result = DOMAIN NoSummary
        /\ parse_result.order_no = parse_args.order_no
        /\ parse_result.url = parse_args.url
        /\ parse_result.items = <<>>
        /\ PhrasesIn(DatePhrases) = {} => parse_result.date_str = <<>>
        /\ PhrasesIn(NamePhrases) = {} => parse_result.name = <<>>
        /\ PhrasesIn(EndingPhrases) = {} => parse_result.payment_last4 = <<"N", "/", "A">>
        /\ PhrasesIn({P_subtotal}) = {} => parse_result.subtotal = Zero
        /\ parse_result.discount = Zero
        /\ parse_result.delivery = Zero
        /\ parse_result.taxes = Zero
        /\ parse_result.total = Zero

\* A page that prints an order mark and nothing else: every field has its
\* default, and the arguments are returned.
C14_Witness ==
    /\ ParseDone
    /\ page_phrases = <<T_order>>
    /\ parse_args.order_no = A_order_no
    /\ parse_result = [NoSummary EXCEPT !.order_no = A_order_no, !.url = A_url,
                                        !.payment_last4 = <<"N", "/", "A">>]

\* The total that a phrase with the Total label prints.
PrintedTotal(phrase) ==
    IF phrase = P_taxes_total THEN Finite(FALSE, 8071, -2) ELSE Finite(FALSE, 999, -2)

\* C15: subtotal, taxes and total are the amounts of the first phrase that
\* prints the label with an amount, and 0.0 when no phrase has the label:
\* a page with Subtotal and without Total has total 0.0.  The text 'Subtotal
\* $75.71 Multisave Discount $0.76 Taxes $5.00 Total $80.71' gives 75.71,
\* -0.76, 0.00, 5.00 and 80.71.
C15_LabelledAmounts ==
    ParseDone =>
        /\ IF PhrasesIn({P_subtotal}) # {}
           THEN NumEq(parse_result.subtotal, Finite(FALSE, 7571, -2))
           ELSE parse_result.subtotal = Zero
        /\ IF PhrasesIn({P_taxes_total}) # {}
           THEN NumEq(parse_result.taxes, Finite(FALSE, 5, 0))
           ELSE parse_result.taxes = Zero
        /\ IF PhrasesIn({P_taxes_total, P_total_upper}) # {}
           THEN NumEq(parse_result.total, PrintedTotal(FirstPhraseIn({P_taxes_total, P_total_upper})))
           ELSE parse_result.total = Zero
        /\ page_phrases = <<P_subtotal, P_multisave, P_taxes_total>> =>
               /\ NumEq(parse_result.discount, Finite(TRUE, 76, -2))
               /\ parse_result.delivery = Zero

\* Two phrases print a total: that of the first is returned, and the page has
\* a subtotal as well.
C15_Witness ==
    /\ ParseDone
    /\ page_phrases = <<P_subtotal, P_total_upper, P_taxes_total>>
    /\ NumEq(parse_result.total, Finite(FALSE, 999, -2))
    /\ NumEq(parse_result.subtotal, Finite(FALSE, 7571, -2))

(***************************************************************************)
(* SpecWrite: _write_order_files on the summaries that fetch_orders builds *)
(***************************************************************************)
MaxItems == 2

D_none == <<>>
D_full == <<"O", "c", "t", " ", "1", "9", ",", " ", "2", "0", "2", "5">>
\* "Delivered on Oct\n19" in the page text: \s+ of RE_DATE_DELIVERED takes the
\* line break, and group 1 keeps it.
D_broken == <<"O", "c", "t", "\n", "1", "9">>
W_last4 == <<"*", "*", "*", "*", "1", "5", "2", "9">>
W_name == <<"J", "o", "h", "n">>
I_milk == <<"M", "i", "l", "k", " ", "2", "%">>
\* inner_text().strip() of a product name set on two lines.
I_bread == <<"B", "r", "e", "a", "d", "\n", "S", "l", "i", "c", "e", "d">>
I_eggs == <<"E", "g", "g", "s">>

ItemPool ==
    { OrderItem(I_milk, 2, Finite(FALSE, 349, -2)),
      OrderItem(I_bread, 1, Finite(FALSE, 25, -1)),
      OrderItem(I_eggs, 12, Inf(FALSE)) }

OrderNoPool == {A_order_no, <<"7">>}
DatePool == {D_none, D_full, D_broken}
PaymentPool == {L_not_available, W_last4}
NamePool == {<<>>, W_name}
SubtotalPool == {Zero, Finite(FALSE, 7571, -2)}
\* -abs(0.0) is -0.0
DiscountPool == {Zero, Finite(TRUE, 0, 0), Finite(TRUE, 76, -2)}
DeliveryPool == {Zero, Finite(FALSE, 5, 0)}
TotalPool == {Zero, Finite(FALSE, 8071, -2), Inf(FALSE)}

InitWrite ==
    /\ \E no \in OrderNoPool, d \in DatePool, p \in PaymentPool, n \in NamePool,
          sub \in SubtotalPool, disc \in DiscountPool, del \in DeliveryPool,
          tot \in TotalPool, its \in TokenSeqs(ItemPool, MaxItems) :
            wof_summary = [ order_no |-> no, url |-> OrderUrl(no), date_str |-> d,
                            payment_last4 |-> p, name |-> n, subtotal |-> sub,
                            discount |-> disc, delivery |-> del,
                            taxes |-> Finite(FALSE, 5, 0), total |-> tot, items |-> its ]
    /\ wof_pc = "start"
    /\ wof_file = NoFile
    /\ MoneyIdle /\ ParseIdle /\ DecodeIdle /\ UnwrapIdle /\ ExtractIdle /\ FetchIdle /\ PipelineIdle /\ PeriodIdle

CallWriteOrderFiles ==
    /\ wof_pc = "start"
    /\ wof_file' = write_order_files(wof_summary)
    /\ wof_pc' = "done"
    /\ UNCHANGED <<wof_summary, moneyVars, parseVars, decodeVars, unwrapVars, extractVars,
                 fetchVars, pipelineVars, periodVars>>

NextWrite == CallWriteOrderFiles

SpecWrite == InitWrite /\ [][NextWrite]_vars

\* The positions of the line breaks of the text.
Breaks(text) == {i \in 1..Len(text) : text[i] = "\n"}

\* The end of the line that starts at `from`: before the next break, or the
\* end of the text.
LineEnd(text, from) ==
    IF \E i \in Breaks(text) : i >= from
    THEN (CHOOSE i \in Breaks(text) : i >= from /\ \A j \in Breaks(text) : j >= from => i <= j) - 1
    ELSE Len(text)

RECURSIVE SplitLinesFrom(_, _)
\* The lines of text[from..].
SplitLinesFrom(text, from) ==
    IF LineEnd(text, from) = Len(text) THEN <<SubSeq(text, from, Len(text))>>
    ELSE <<SubSeq(text, from, LineEnd(text, from))>> \o SplitLinesFrom(text, LineEnd(text, from) + 2)

\* The lines that a reader of the file sees.
SplitLines(text) == SplitLinesFrom(text, 1)

HeaderLabels ==
    << L_order, L_url_label, L_date, L_payment, L_name, L_subtotal_label,
       L_discount_label, L_delivery_label, L_taxes_label, L_total_label, L_items >>

\* The line ends with a digit, a point and two digits.
TwoFractionalDigits(line) ==
    /\ Len(line) >= 4
    /\ IsDigitAt(line, Len(line) - 3)
    /\ line[Len(line) - 2] = "."
    /\ IsDigitAt(line, Len(line) - 1)
    /\ IsDigitAt(line, Len(line))

FixedFormat(lines, os) ==
    /\ Len(lines) = 11 + Len(os.items)
    /\ \A k \in 1..11 : StartsWithAt(lines[k], 1, HeaderLabels[k])
    /\ lines[11] = L_items
    /\ \A k \in 6..10 : TwoFractionalDigits(lines[k])
    /\ \A k \in 1..Len(os.items) :
          /\ StartsWithAt(lines[11 + k], 1, L_item \o os.items[k].title \o L_qty)
          /\ TwoFractionalDigits(lines[11 + k])

\* C16: the file written for a summary has 11 + (number of items) lines: the
\* ten labelled lines in order, "Items:", then one line per item in item
\* order, and every amount is printed with exactly two fractional digits.
C16_FixedLines == wof_pc = "done" => FixedFormat(SplitLines(wof_file.text), wof_summary)

(***************************************************************************)
(* SpecFetch: fetch_orders on the lists that run_pipeline hands over       *)
(***************************************************************************)
MaxOrders == 2

N_ten == <<"1", "0">>
N_seven == <<"7">>
OrderNumberPool == {N_ten, A_order_no, N_seven}

\* The lists of main.py: sorted, each identifier once.
OrderLists ==
    { ns \in TokenSeqs(OrderNumberPool, MaxOrders) :
        \A k \in 1..(Len(ns) - 1) : StrLess(ns[k], ns[k + 1]) }

\* An order page, and the page of a gate that was never passed.
H_order ==
    JoinPhrases(<<T_delivered, T_visa, T_ending, T_address, P_subtotal, P_multisave, P_taxes_total>>)
H_sign_in == <<"S", "i", "g", "n", " ", "i", "n">>
PageTexts == {H_order, H_sign_in}

\* What _extract_first_name_dom finds.
DomNames == {<<>>, <<"J", "a", "n", "e">>}

\* What _parse_items_from_dom finds.
ItemLists == {<<>>, <<OrderItem(I_milk, 2, Finite(FALSE, 349, -2))>>}

\* The call fetch_orders(order_numbers).
StartFetch(order_numbers) ==
    /\ fo_order_numbers = order_numbers
    /\ fo_idx = 0
    /\ fo_pc = "start"
    /\ fo_log = <<>>
    /\ fo_files = {}
    /\ fo_html = <<>>
    /\ fo_summary = NoSummary

InitFetch ==
    /\ \E ns \in OrderLists : StartFetch(ns)
    /\ MoneyIdle /\ ParseIdle /\ DecodeIdle /\ UnwrapIdle /\ ExtractIdle /\ WriteIdle /\ PipelineIdle /\ PeriodIdle

\* _launch_context and the first page: outside every try of fetch_orders.
LaunchContext ==
    /\ fo_pc = "start"
    /\ \E launched \in BOOLEAN :
          IF launched
          THEN fo_idx' = 1 /\ fo_pc' = LoopHead(fo_order_numbers, 1)
          ELSE fo_idx' = fo_idx /\ fo_pc' = "raised"
    /\ UNCHANGED <<fo_order_numbers, fo_log, fo_files, fo_html, fo_summary>>

\* page.goto in its try: an exception is printed, and the loop continues.
Navigate ==
    /\ fo_pc = "goto"
    /\ \E arrived \in BOOLEAN :
          IF arrived
          THEN Did("goto") /\ Moved("goto")
          ELSE /\ fo_log' = fo_log \o <<Event("goto", fo_idx), Event("nav_error", fo_idx)>>
               /\ NextOrder
    /\ UNCHANGED <<fo_order_numbers, fo_files, fo_html, fo_summary>>

\* _check_robot_page, which raises nothing; input() when it is the robot page.
CheckRobotPage ==
    /\ fo_pc = "robot"
    /\ Did("robot")
    /\ \E robot \in BOOLEAN : fo_pc' = IF robot THEN "robot_input" ELSE StepAfter("robot")
    /\ UNCHANGED <<fo_order_numbers, fo_idx, fo_files, fo_html, fo_summary>>

\* _check_login_page, which raises nothing; input() when it is the login page.
CheckLoginPage ==
    /\ fo_pc = "login"
    /\ Did("login")
    /\ \E login \in BOOLEAN : fo_pc' = IF login THEN "login_input" ELSE StepAfter("login")
    /\ UNCHANGED <<fo_order_numbers, fo_idx, fo_files, fo_html, fo_summary>>

\* _wait_for_order_content catches the timeout only; input() after a timeout.
WaitForOrderContent ==
    /\ fo_pc = "wait"
    /\ \E outcome \in {"loaded", "timeout", "error"} :
          IF outcome = "error" THEN Raised
          ELSE /\ Did("wait")
               /\ fo_idx' = fo_idx
               /\ fo_pc' = IF outcome = "timeout" THEN "wait_input" ELSE StepAfter("wait")
    /\ UNCHANGED <<fo_order_numbers, fo_files, fo_html, fo_summary>>

\* After input() the check that prompted runs again.
PressEnter_Recheck ==
    /\ fo_pc \in {"robot_input", "login_input", "wait_input"}
    /\ fo_pc' = (IF fo_pc = "robot_input" THEN "robot"
                 ELSE IF fo_pc = "login_input" THEN "login" ELSE "wait")
    /\ UNCHANGED <<fo_order_numbers, fo_idx, fo_log, fo_files, fo_html, fo_summary>>

\* input() returns, or raises into its `except Exception: pass`.
PressEnter ==
    /\ fo_pc \in {"robot_input", "login_input", "wait_input"}
    /\ fo_pc' = StepAfter(IF fo_pc = "robot_input" THEN "robot"
                          ELSE IF fo_pc = "login_input" THEN "login" ELSE "wait")
    /\ UNCHANGED <<fo_order_numbers, fo_idx, fo_log, fo_files, fo_html, fo_summary>>

\* html = page.content(): no try around it.
ReadContent ==
    /\ fo_pc = "content"
    /\ \/ \E html \in PageTexts : fo_html' = html /\ Did("content") /\ Moved("content")
       \/ fo_html' = fo_html /\ Raised
    /\ UNCHANGED <<fo_order_numbers, fo_files, fo_summary>>

\* parse_order_page, then the name of the DOM when the text gave none.
ParseOrderPage ==
    /\ fo_pc = "parse"
    /\ \E dom_name \in DomNames :
          fo_summary' = WithDomName(parse_order_page(fo_html, OrderNo, OrderUrl(OrderNo)), dom_name)
    /\ Did("parse")
    /\ Moved("parse")
    /\ UNCHANGED <<fo_order_numbers, fo_files, fo_html>>

\* _parse_items_from_dom: tiles.count() is outside its try.
ParseItemsFromDom ==
    /\ fo_pc = "items"
    /\ \/ \E items \in ItemLists :
             /\ fo_summary' = [fo_summary EXCEPT !.items = items]
             /\ Did("items")
             /\ Moved("items")
       \/ fo_summary' = fo_summary /\ Raised
    /\ UNCHANGED <<fo_order_numbers, fo_files, fo_html>>

\* _write_order_files(order_summary): no try around it.
WriteOrderFiles ==
    /\ fo_pc = "txt"
    /\ \/ fo_files' = fo_files \cup {write_order_files(fo_summary)} /\ Did("txt") /\ Moved("txt")
       \/ fo_files' = fo_files /\ Raised
    /\ UNCHANGED <<fo_order_numbers, fo_html, fo_summary>>

\* html_path.write_text(html): no try around it.  The loop body ends here.
WriteHtml ==
    /\ fo_pc = "html"
    /\ \/ fo_files' = fo_files \cup {HtmlFile(OrderNo, fo_html)} /\ Did("html") /\ Moved("html")
       \/ fo_files' = fo_files /\ Raised
    /\ UNCHANGED <<fo_order_numbers, fo_html, fo_summary>>

\* ctx.close() in its try; fetch_orders returns.
CloseContext ==
    /\ fo_pc = "close"
    /\ fo_pc' = "done"
    /\ UNCHANGED <<fo_order_numbers, fo_idx, fo_log, fo_files, fo_html, fo_summary>>

FetchStep ==
    \/ LaunchContext
    \/ Navigate
    \/ CheckRobotPage
    \/ CheckLoginPage
    \/ WaitForOrderContent
    \/ PressEnter
    \/ ReadContent
    \/ ParseOrderPage
    \/ ParseItemsFromDom
    \/ WriteOrderFiles
    \/ WriteHtml
    \/ CloseContext

NextFetch ==
    /\ FetchStep
    /\ UNCHANGED <<moneyVars, parseVars, decodeVars, unwrapVars, extractVars, writeVars,
                 pipelineVars, periodVars>>

SpecFetch == InitFetch /\ [][NextFetch]_vars

\* fetch_orders has returned or raised.
FetchOver == fo_pc \in {"done", "raised"}

\* Something was logged for the k-th identifier under `step`.
Logged(step, k) == \E p \in 1..Len(fo_log) : fo_log[p] = Event(step, k)

\* Handling the k-th identifier failed: its navigation, or a later statement.
FailedAt(k) == Logged("nav_error", k) \/ Logged("raised", k)

\* C17: a failure while handling one identifier does not abort the batch:
\* when fetch_orders is over, every identifier after the one that failed
\* was navigated to.
C17_BatchContinues ==
    FetchOver =>
        \A j \in 1..Len(fo_order_numbers) : \A k \in (j + 1)..Len(fo_order_numbers) :
            FailedAt(j) => Logged("goto", k)

\* The statements of the loop body in the order of the claim.
ProgramOrder == <<"goto", "robot", "login", "wait", "content", "parse", "items", "txt", "html">>

\* b is logged right after a: within one identifier the next statement of
\* the body (or the navigation error, or the exception); across identifiers
\* the navigation of the next one, after a skip or after the raw markup.
Follows(a, b) ==
    IF a.idx = b.idx
    THEN \/ \E k \in 1..(Len(ProgramOrder) - 1) : a.step = ProgramOrder[k] /\ b.step = ProgramOrder[k + 1]
         \/ a.step = "goto" /\ b.step = "nav_error"
         \/ a.step \in {"login", "wait", "parse", "items", "txt"} /\ b.step = "raised"
    ELSE b.idx = a.idx + 1 /\ b.step = "goto" /\ a.step \in {"nav_error", "html"}

\* The file <id><suffix> of the k-th identifier was written.
Written(k, suffix) == \E f \in fo_files : f.path = fo_order_numbers[k] \o suffix

\* The loop has moved on from the k-th identifier.
MovedOn(k) == k < fo_idx

\* C18: identifiers are handled one at a time in list order, the statements
\* of each in program order; the next navigation starts only after a skip or
\* after both files of the current identifier; and an identifier that the
\* loop has moved on from has neither or both of <id>.txt and <id>.html.
C18_OneAtATime ==
    /\ fo_log # <<>> => fo_log[1] = Event("goto", 1)
    /\ \A p \in 1..(Len(fo_log) - 1) : Follows(fo_log[p], fo_log[p + 1])
    /\ \A k \in 1..Len(fo_order_numbers) :
          MovedOn(k) =>
              /\ Written(k, L_txt) <=> Written(k, L_html)
              /\ Logged("nav_error", k) <=> ~Written(k, L_txt)
              /\ Logged("html", k) <=> Written(k, L_html)
    /\ \A f \in fo_files :
          \E k \in 1..Len(fo_order_numbers) :
              k <= fo_idx /\ f.path \in {fo_order_numbers[k] \o L_txt, fo_order_numbers[k] \o L_html}

\* The first identifier was skipped, the second has both its files.
C18_Witness ==
    /\ fo_pc = "done"
    /\ fo_order_numbers = <<N_ten, N_seven>>
    /\ Logged("nav_error", 1) /\ ~Written(1, L_txt) /\ ~Written(1, L_html)
    /\ Written(2, L_txt) /\ Written(2, L_html)

(***************************************************************************)
(* SpecPipeline: run_pipeline, from the period to the exit status          *)
(***************************************************************************)
Y_october == <<"2", "0", "2", "5", "-", "1", "0">>
Y_january == <<"2", "0", "2", "5", "-", "1">>
Y_padded == <<" ", "2", "0", "2", "5", "-", "1", "0", " ">>
Y_december == <<"2", "0", "2", "5", "-", "1", "2">>
Y_thirteen == <<"2", "0", "2", "5", "-", "1", "3">>
Y_zero_month == <<"2", "0", "2", "5", "-", "0", "0">>
Y_no_hyphen == <<"2", "0", "2", "5", "1", "0">>
Y_three_digits == <<"2", "0", "2", "5", "-", "1", "0", "0">>
Y_short_year == <<"2", "5", "-", "1", "0">>
Y_slash == <<"2", "0", "2", "5", "/", "1", "0">>
Y_empty == <<>>
Y_text == <<"2", "0", "2", "5", "-", "1", "0", "x">>
Y_year_zero == <<"0", "0", "0", "0", "-", "1", "0">>
Y_last_month == <<"9", "9", "9", "9", "-", "1", "2">>

PeriodPool ==
    { Y_october, Y_january, Y_padded, Y_december, Y_thirteen,
      Y_zero_month, Y_no_hyphen, Y_three_digits, Y_short_year, Y_slash,
      Y_empty, Y_text, Y_year_zero, Y_last_month }

\* EMAIL_SUBJECT_FILTER, as config.py sets it without an environment variable.
EMAIL_SUBJECT_FILTER == Filter(S_delivered)

\* The messages that the folder may hold for the period.
FolderMessages == {M_plain, M_wrapped, M_promo}

InitPipeline ==
    /\ rp_period \in PeriodPool
    /\ rp_env \in {[items |-> [is_none |-> FALSE, msgs |-> ms]] : ms \in TokenSeqs(FolderMessages, MaxMessages)}
    /\ rp_order_numbers = <<>>
    /\ rp_pc = "start"
    /\ rp_log = <<>>
    /\ rp_exit = NotExited
    /\ MoneyIdle /\ ParseIdle /\ DecodeIdle /\ UnwrapIdle /\ ExtractIdle /\ WriteIdle /\ FetchIdle
    /\ PeriodIdle

\* main.py 38-42: OUTPUT_DIR.mkdir has no try around it.
Preflight ==
    /\ rp_pc = "start"
    /\ \E made \in BOOLEAN : IF made THEN GoOn("preflight", "connect") ELSE Crash
    /\ UNCHANGED <<rp_period, rp_env, rp_order_numbers, fetchVars>>

\* The run goes on after a failed connection.
ConnectOutlook_Continue ==
    /\ rp_pc = "connect"
    /\ \E connected \in BOOLEAN :
          IF connected THEN GoOn("connect", "folder") ELSE GoOn("connection_failed", "folder")
    /\ UNCHANGED <<rp_period, rp_env, rp_order_numbers, fetchVars>>

\* main.py 45-50: connect_outlook returns the namespace, or None.
ConnectOutlook ==
    /\ rp_pc = "connect"
    /\ \E connected \in BOOLEAN :
          IF connected THEN GoOn("connect", "folder")
          ELSE Printed("connection_failed") /\ Exit(1)
    /\ UNCHANGED <<rp_period, rp_env, rp_order_numbers, fetchVars>>

\* main.py 53-58: get_folder_by_path returns the folder, or None; the line
\* printed for a folder reads folder.Items.Count, outside every try.
GetFolderByPath ==
    /\ rp_pc = "folder"
    /\ \E outcome \in {"found", "missing", "count_error"} :
          IF outcome = "found" THEN GoOn("folder", "filter")
          ELSE IF outcome = "missing" THEN Printed("folder_not_found") /\ Exit(1)
          ELSE Crash
    /\ UNCHANGED <<rp_period, rp_env, rp_order_numbers, fetchVars>>

\* get_items_for_period after a period that parsed: Sort and Restrict in
\* their try, then items_in_period.Count outside every try (main.py 66).
RestrictItems ==
    \E outcome \in {"restricted", "restrict_error", "count_error"} :
        IF outcome = "restricted" THEN GoOn("filter", "extract")
        ELSE IF outcome = "restrict_error" THEN Printed("period_invalid") /\ Exit(1)
        ELSE Crash

\* What get_items_for_period does with the parsed period.
FilterBy(parsed) ==
    IF parsed.kind = "raises" THEN Crash
    ELSE IF parsed.kind = "none" THEN Printed("period_invalid") /\ Exit(1)
    ELSE RestrictItems

\* main.py 61-66
GetItemsForPeriod ==
    /\ rp_pc = "filter"
    /\ FilterBy(parse_period(rp_period))
    /\ UNCHANGED <<rp_period, rp_env, rp_order_numbers, fetchVars>>

\* main.py 69-74: the identifiers come back sorted, each once, and are
\* sorted again.
ExtractOrderNumbers ==
    /\ rp_pc = "extract"
    /\ rp_order_numbers' =
          Sorted(Elements(extract_order_numbers_from_items(rp_env.items, EMAIL_SUBJECT_FILTER)))
    /\ GoOn("extract", "orders")
    /\ UNCHANGED <<rp_period, rp_env, fetchVars>>

\* main.py 77-79: fetch_orders is called.
CallFetchOrders ==
    /\ rp_pc = "orders"
    /\ rp_order_numbers # <<>>
    /\ GoOn("fetch", "fetching")
    /\ fo_order_numbers' = rp_order_numbers
    /\ fo_idx' = 0
    /\ fo_pc' = "start"
    /\ fo_log' = <<>>
    /\ fo_files' = {}
    /\ fo_html' = <<>>
    /\ fo_summary' = NoSummary
    /\ UNCHANGED <<rp_period, rp_env, rp_order_numbers>>

\* main.py 82-83: nothing to fetch, and main returns.
NoOrders ==
    /\ rp_pc = "orders"
    /\ rp_order_numbers = <<>>
    /\ Printed("no_orders") /\ Exit(0)
    /\ UNCHANGED <<rp_period, rp_env, rp_order_numbers, fetchVars>>

\* main.py 80-81: fetch_orders returned, and main returns.
FetchReturned ==
    /\ rp_pc = "fetching"
    /\ fo_pc = "done"
    /\ Printed("completed") /\ Exit(0)
    /\ UNCHANGED <<rp_period, rp_env, rp_order_numbers, fetchVars>>

\* fetch_orders raised: nothing in main catches it.
FetchRaised ==
    /\ rp_pc = "fetching"
    /\ fo_pc = "raised"
    /\ Crash
    /\ UNCHANGED <<rp_period, rp_env, rp_order_numbers, fetchVars>>

PipelineStep ==
    \/ Preflight
    \/ ConnectOutlook
    \/ GetFolderByPath
    \/ GetItemsForPeriod
    \/ ExtractOrderNumbers
    \/ CallFetchOrders
    \/ NoOrders
    \/ FetchReturned
    \/ FetchRaised

NextPipeline ==
    \/ /\ PipelineStep
       /\ UNCHANGED <<moneyVars, parseVars, decodeVars, unwrapVars, extractVars, writeVars,
                    periodVars>>
    \/ NextFetch

SpecPipeline == InitPipeline /\ [][NextPipeline]_vars

\* The process is over.
RunOver == rp_pc = "exited"

\* fetch_orders was called.
FetchInvoked == fo_pc # "idle"

\* `line` was printed at position p of the log.
PrintedAt(line, p) == p \in 1..Len(rp_log) /\ rp_log[p] = line

\* `line` was printed.
WasPrinted(line) == \E p \in 1..Len(rp_log) : rp_log[p] = line

\* The last line is that of a failure.
EndsWithDiagnostic ==
    /\ rp_log # <<>>
    /\ rp_log[Len(rp_log)] \in {"connection_failed", "folder_not_found", "period_invalid", "traceback"}

\* s is YYYY-MM: four digits, a hyphen, two digits, the month in 1..12.
StrictPeriod(s) ==
    /\ Len(s) = 7
    /\ \A k \in {1, 2, 3, 4, 6, 7} : s[k] \in Digits
    /\ s[5] = "-"
    /\ NatOf(SubSeq(s, 6, 7)) \in 1..12

\* s is four digits, a hyphen and one or two digits, the month in 1..12.
LenientPeriod(s) ==
    /\ Len(s) \in {6, 7}
    /\ \A k \in (1..Len(s)) \ {5} : s[k] \in Digits
    /\ s[5] = "-"
    /\ NatOf(SubSeq(s, 6, Len(s))) \in 1..12

\* What the claim says of a run whose period is invalid, and of one whose
\* period is valid and gives no identifier.
PeriodPolicy(valid) ==
    /\ ~valid => ~FetchInvoked
    /\ (RunOver /\ ~valid) => rp_exit # 0 /\ EndsWithDiagnostic
    /\ (RunOver /\ valid /\ WasPrinted("extract") /\ rp_order_numbers = <<>>) =>
          rp_exit = 0 /\ ~FetchInvoked

\* C19 as stated: a period that is not YYYY-MM, or whose month is outside
\* 1..12, ends in a diagnostic line and a non-zero exit with no fetch; a
\* valid period with no identifier ends with exit 0 and no fetch.
C19_StrictPeriod == PeriodPolicy(StrictPeriod(rp_period))

\* C19, amended: the same of a period that, trimmed of surrounding
\* whitespace, is not four digits, a hyphen and one or two digits with the
\* month in 1..12.
C19_LenientPeriod == PeriodPolicy(LenientPeriod(Strip(rp_period)))

\* An invalid month ended the run at the filter, with the line of the
\* invalid period and status 1.
C19_Witness ==
    /\ RunOver
    /\ rp_period = Y_thirteen
    /\ rp_log = <<"preflight", "connect", "folder", "period_invalid">>
    /\ rp_exit = 1
    /\ ~FetchInvoked

LaterStages == {"folder", "folder_not_found", "filter", "period_invalid", "extract", "fetch"}

\* C20: after a failed connection or a folder that is not found the run is
\* over with a non-zero exit and no later stage has run; fetch_orders is
\* called only after connect, folder lookup and period filtering succeeded,
\* in that order.
C20_HaltBeforeWork ==
    /\ \A p \in 1..Len(rp_log) :
          rp_log[p] \in {"connection_failed", "folder_not_found"} =>
              /\ p = Len(rp_log)
              /\ RunOver /\ rp_exit # 0 /\ ~FetchInvoked
              /\ \A q \in 1..(p - 1) : rp_log[q] \notin {"filter", "extract", "fetch"}
    /\ \A p \in 1..Len(rp_log) :
          rp_log[p] = "connection_failed" => \A q \in 1..(p - 1) : rp_log[q] \notin LaterStages
    /\ (FetchInvoked \/ WasPrinted("fetch")) =>
          \E a, b, c, d \in 1..Len(rp_log) :
              /\ a < b /\ b < c /\ c < d
              /\ rp_log[a] = "connect" /\ rp_log[b] = "folder"
              /\ rp_log[c] = "filter" /\ rp_log[d] = "fetch"

\* The folder was not found, and the run ended there.
C20_Witness ==
    /\ RunOver
    /\ rp_log = <<"preflight", "connect", "folder_not_found">>
    /\ rp_exit = 1
    /\ ~FetchInvoked

(***************************************************************************)
(* SpecAmounts: parse_order_page on discount and delivery phrases whose    *)
(* values have no, one or two decimals, and stand apart from their label   *)
(***************************************************************************)
MaxAmountPhrases == 2

Q_savings_whole == <<"S", "a", "v", "i", "n", "g", "s", " ", "$", "5">>
Q_savings_tenth == <<"S", "a", "v", "i", "n", "g", "s", " ", "$", "0", ".", "5">>
Q_savings_cents == <<"S", "a", "v", "i", "n", "g", "s", " ", "$", "0", ".", "7", "6">>
Q_delivery_bare == <<"D", "e", "l", "i", "v", "e", "r", "y">>
Q_delivery_tenth == <<"D", "e", "l", "i", "v", "e", "r", "y", " ", "1", ".", "5">>
\* The label, a line of other text, and the value on a third line.
Q_shipping_lines == <<"S", "h", "i", "p", "p", "i", "n", "g", " ", "f", "e", "e", "\n", "a", "r", "r", "i", "v", "e", "s", " ", "t", "o", "d", "a", "y", "\n", "$", "4", ".", "2", "5">>
Q_note == <<"T", "h", "a", "n", "k", " ", "y", "o", "u", "\n", "J", "o", "h", "n">>

SavingsPhrases == {Q_savings_whole, Q_savings_tenth, Q_savings_cents}
LabelledPhrases == {Q_delivery_bare, Q_delivery_tenth, Q_shipping_lines, P_delivery}
AmountPhrases == SavingsPhrases \cup LabelledPhrases \cup {Q_note, P_subtotal}

InitAmounts ==
    /\ page_phrases \in TokenSeqs(AmountPhrases, MaxAmountPhrases)
    /\ parse_args = [order_no |-> A_order_no, url |-> A_url]
    /\ parse_pc = "start"
    /\ parse_result = NoSummary
    /\ MoneyIdle /\ DecodeIdle /\ UnwrapIdle /\ ExtractIdle /\ WriteIdle /\ FetchIdle /\ PipelineIdle /\ PeriodIdle

SpecAmounts == InitAmounts /\ [][NextParse]_vars

\* The number that a savings phrase prints after its label.
PrintedSavings(phrase) ==
    IF phrase = Q_savings_whole THEN Finite(FALSE, 5, 0)
    ELSE IF phrase = Q_savings_tenth THEN Finite(FALSE, 5, -1)
    ELSE Finite(FALSE, 76, -2)

\* C21: the discount is minus the whole number printed after the first
\* discount label, whether that number has no, one or two decimals.
C21_WholeMagnitude ==
    (ParseDone /\ PhrasesIn(SavingsPhrases) # {}) =>
        NumEq(parse_result.discount, Neg(PrintedSavings(FirstPhraseIn(SavingsPhrases))))

\* The first two-decimal value that a phrase prints, if it prints one.
PrintsAmount(phrase) == phrase \in {P_delivery, Q_shipping_lines, P_subtotal, Q_savings_cents}
PrintedAmount(phrase) ==
    IF phrase = P_delivery THEN Finite(FALSE, 5, 0)
    ELSE IF phrase = Q_shipping_lines THEN Finite(FALSE, 425, -2)
    ELSE IF phrase = P_subtotal THEN Finite(FALSE, 7571, -2)
    ELSE Finite(FALSE, 76, -2)

\* The position of the first phrase with a delivery label.
FirstLabelled == CHOOSE k \in PhrasesIn(LabelledPhrases) : \A j \in PhrasesIn(LabelledPhrases) : k <= j

\* The positions from k on whose phrase prints a two-decimal value.
AmountsFrom(k) == {j \in k..Len(page_phrases) : PrintsAmount(page_phrases[j])}

\* The first two-decimal value printed from phrase k on, 0.0 without one.
FirstPrintedFrom(k) ==
    IF AmountsFrom(k) = {} THEN Zero
    ELSE PrintedAmount(page_phrases[CHOOSE j \in AmountsFrom(k) : \A i \in AmountsFrom(k) : j <= i])

\* C22: with a delivery label in the text, delivery is the first two-decimal
\* value after the first label, whatever text and line breaks stand between
\* them, and 0.0 when no such value follows the label.
C22_FirstValueAfterLabel ==
    (ParseDone /\ PhrasesIn(LabelledPhrases) # {}) =>
        NumEq(parse_result.delivery, FirstPrintedFrom(FirstLabelled))

\* The value of 'Shipping fee\narrives today\n$4.25' is found across the
\* line breaks, and the subtotal after it is not taken.
C22_Witness ==
    /\ ParseDone
    /\ page_phrases = <<Q_shipping_lines, P_subtotal>>
    /\ parse_result.delivery = Finite(FALSE, 425, -2)

(***************************************************************************)
(* SpecLayers: _extract_urls_from_safelinks on one redirector URL whose    *)
(* url parameter is made of at most MaxLayerTokens pieces, each under a    *)
(* known number of layers of percent-encoding                              *)
(***************************************************************************)
MaxLayerTokens == 2

\* /1 as it is, and under one to five layers of encoding.
V_zero == <<"/", "1">>
V_one == <<"%", "2", "F", "1">>
V_two == <<"%", "2", "5", "2", "F", "1">>
V_three == <<"%", "2", "5", "2", "5", "2", "F", "1">>
V_four == <<"%", "2", "5", "2", "5", "2", "5", "2", "F", "1">>
V_five == <<"%", "2", "5", "2", "5", "2", "5", "2", "5", "2", "F", "1">>
V_plus == <<"a", "+", "b">>

LayerTokens == {V_zero, V_one, V_two, V_three, V_four, V_five, V_plus}

\* The redirector URL up to the = of its url parameter.
WrapperHead == U_wrapper \o U_url_param

InitLayers ==
    /\ unw_s \in {WrapperHead \o Concat(ts) : ts \in TokenSeqs(LayerTokens, MaxLayerTokens)}
    /\ unw_pc = "start"
    /\ unw_out = <<>>
    /\ MoneyIdle /\ ParseIdle /\ DecodeIdle /\ ExtractIdle /\ WriteIdle /\ FetchIdle /\ PipelineIdle /\ PeriodIdle

SpecLayers == InitLayers /\ [][NextUnwrap]_vars

\* The url parameter as it appears in the URL.
RawTarget == SubSeq(unw_s, Len(WrapperHead) + 1, Len(unw_s))

RECURSIVE LayersOf(_)
\* The number of layers of percent-encoding x is under: the number of
\* decoding rounds that change it.
LayersOf(x) == IF unquote(x) = x THEN 0 ELSE 1 + LayersOf(unquote(x))

\* max(0, k - n)
LayersLeft(k, n) == IF k > n THEN k - n ELSE 0

\* The output is the raw parameter after n rounds of percent-decoding of
\* x, the raw parameter or what stands for it, with the layers that leaves.
EmittedAfter(x, n) ==
    /\ unw_out = <<Unquoted(x, n)>>
    /\ LayersOf(unw_out[1]) = LayersLeft(LayersOf(RawTarget), n)

\* C23 as stated: the emitted target is the url parameter as it appears in
\* the URL, percent-decoded exactly three times, so that of k layers of
\* encoding max(0, k - 3) remain.
C23_ThreeRounds ==
    (UnwrapDone /\ RawTarget # <<>>) => EmittedAfter(RawTarget, 3)

\* C23 (amended): the emitted target is the url parameter as it appears in
\* the URL with every + turned into a space, percent-decoded four times (once
\* by the query parser, three times by the unwrapper), so that of k layers
\* of encoding max(0, k - 4) remain; an empty parameter emits nothing.
C23_FourRounds ==
    UnwrapDone =>
        IF RawTarget = <<>> THEN unw_out = <<>> ELSE EmittedAfter(PlusToSpace(RawTarget), 4)

\* Five layers leave one, not two.
C23_Witness ==
    /\ UnwrapDone
    /\ RawTarget = V_five
    /\ unw_out = <<V_one>>

(***************************************************************************)
(* SpecDates: parse_order_page on pages with 'Delivered on' phrases,       *)
(* header dates and order marks                                            *)
(***************************************************************************)
MaxDatePhrases == 3

\* Upper case, a full month name, and a line break before the day.
Q_delivered_long == <<"D", "E", "L", "I", "V", "E", "R", "E", "D", " ", "O", "N", " ", "O", "c", "t", "o", "b", "e", "r", "\n", "5">>
\* A header date with its order mark.
Q_header_mark == <<"D", "e", "c", " ", "2", "4", ",", " ", "2", "0", "2", "4", " ", "O", "r", "d", "e", "r", "#", "7">>

DeliveredPhrases == {T_delivered, Q_delivered_long}
TriplePhrases == {T_header, Q_header_mark}
DateTexts == DeliveredPhrases \cup TriplePhrases \cup {T_order, Q_note}

InitDates ==
    /\ page_phrases \in TokenSeqs(DateTexts, MaxDatePhrases)
    /\ parse_args = [order_no |-> A_order_no, url |-> A_url]
    /\ parse_pc = "start"
    /\ parse_result = NoSummary
    /\ MoneyIdle /\ DecodeIdle /\ UnwrapIdle /\ ExtractIdle /\ WriteIdle /\ FetchIdle /\ PipelineIdle /\ PeriodIdle

SpecDates == InitDates /\ [][NextParse]_vars

\* What a 'Delivered on' phrase prints after the label.
PrintedMonthDay(phrase) ==
    IF phrase = T_delivered THEN <<"O", "c", "t", " ", "1", "9">> ELSE <<"O", "c", "t", "o", "b", "e", "r", "\n", "5">>

\* Its month and its day.
PrintedMonth(phrase) == IF phrase = T_delivered THEN <<"O", "c", "t">> ELSE <<"O", "c", "t", "o", "b", "e", "r">>
PrintedDay(phrase) == IF phrase = T_delivered THEN <<"1", "9">> ELSE <<"5">>

\* The '<Month> <Day>, <Year>' triple that a phrase prints, and its year.
PrintedTriple(phrase) == IF phrase = T_header THEN T_header ELSE <<"D", "e", "c", " ", "2", "4", ",", " ", "2", "0", "2", "4">>
PrintedYear(phrase) == IF phrase = T_header THEN <<"2", "0", "2", "5">> ELSE <<"2", "0", "2", "4">>

\* The date of a 'Delivered on' phrase on the page: with the year of the
\* first triple when the page has one, as printed otherwise.
DeliveredDate(phrase) ==
    IF PhrasesIn(TriplePhrases) = {} THEN PrintedMonthDay(phrase)
    ELSE PrintedMonth(phrase) \o <<" ">> \o PrintedDay(phrase) \o <<",", " ">>
             \o PrintedYear(FirstPhraseIn(TriplePhrases))

\* An order mark stands at or after position k.
OrderMarkSince(k) ==
    \/ \E j \in PhrasesIn({Q_header_mark}) : j >= k
    \/ \E j \in PhrasesIn({T_order}) : j > k

\* The position of the first triple.
FirstTriple == CHOOSE k \in PhrasesIn(TriplePhrases) : \A j \in PhrasesIn(TriplePhrases) : k <= j

\* The header match: the first triple that an order mark follows.
HeaderMatches == PhrasesIn(TriplePhrases) # {} /\ OrderMarkSince(FirstTriple)

\* C24: the date is that of the first 'Delivered on <Month> <Day>' when the
\* page has one, whether or not the header matches as well, with the year of
\* the first '<Month> <Day>, <Year>' triple of the text appended when there
\* is one and without a year otherwise; else it is the date of the header
\* match '<Month> <Day>, <Year> ... Order#'; else it is the empty string.
C24_DateSelection ==
    ParseDone =>
        parse_result.date_str =
            IF PhrasesIn(DeliveredPhrases) # {} THEN DeliveredDate(FirstPhraseIn(DeliveredPhrases))
            ELSE IF HeaderMatches THEN PrintedTriple(page_phrases[FirstTriple])
            ELSE <<>>

\* The header matches and a 'Delivered on' follows it: the date is the
\* delivered one, with the year of the header.
C24_Witness ==
    /\ ParseDone
    /\ page_phrases = <<Q_header_mark, Q_delivered_long>>
    /\ parse_result.date_str = <<"O", "c", "t", "o", "b", "e", "r", " ", "5", ",", " ", "2", "0", "2", "4">>

(***************************************************************************)
(* SpecPayment: parse_order_page on pages with a 'Payment method' label,   *)
(* brands and 'Ending in' phrases inside and outside the payment window    *)
(***************************************************************************)
MaxPaymentPhrases == 3

\* The label alone, and a brand alone.
Q_method == <<"P", "a", "y", "m", "e", "n", "t", " ", "m", "e", "t", "h", "o", "d">>
Q_mastercard == <<"M", "a", "s", "t", "e", "r", "c", "a", "r", "d">>
\* A word that fills the window from a label a few phrases before it.
Q_filler == [k \in 1..(PaymentWindowSize - 10) |-> "x"]

PaymentPhrases == {T_ending, T_ending_upper, Q_method, Q_mastercard, Q_filler}

InitPayment ==
    /\ page_phrases \in TokenSeqs(PaymentPhrases, MaxPaymentPhrases)
    /\ parse_args = [order_no |-> A_order_no, url |-> A_url]
    /\ parse_pc = "start"
    /\ parse_result = NoSummary
    /\ MoneyIdle /\ DecodeIdle /\ UnwrapIdle /\ ExtractIdle /\ WriteIdle /\ FetchIdle /\ PipelineIdle /\ PeriodIdle

SpecPayment == InitPayment /\ [][NextParse]_vars

\* The position of the first 'Payment method', 0 without one.
FirstMethod == FirstPos(PhrasesIn({Q_method}))

\* The positions of the 'Ending in' phrases that lie in the 500 characters
\* from the first 'Payment method': those after it with no filler between.
EndingsInWindow ==
    {k \in PhrasesIn(EndingPhrases) :
        /\ FirstMethod # 0
        /\ k > FirstMethod
        /\ \A j \in FirstMethod..k : page_phrases[j] # Q_filler}

\* The position of the 'Ending in' phrase that gives the last four digits:
\* the first one of the window when it has one, else the first one of the
\* text; 0 when the text has none.
ChosenEnding ==
    IF EndingsInWindow # {} THEN FirstPos(EndingsInWindow) ELSE FirstPos(PhrasesIn(EndingPhrases))

\* C27: the payment display is **** and the four digits of the 'Ending in'
\* of the payment window when the window has one, else of the first 'Ending
\* in' of the text, and N/A when the text has none; a brand on the page, in
\* the window or outside it, changes nothing and is never displayed.
C27_Last4Only ==
    ParseDone =>
        parse_result.payment_last4 =
            IF ChosenEnding = 0 THEN L_not_available
            ELSE L_stars \o PrintedLast4(page_phrases[ChosenEnding])

\* The 'Ending in' of the window is taken, not the earlier one of the text.
C27_Witness ==
    /\ ParseDone
    /\ page_phrases = <<T_ending, Q_method, T_ending_upper>>
    /\ parse_result.payment_last4 = <<"*", "*", "*", "*", "0", "0", "4", "2">>

(***************************************************************************)
(* fetch_orders: what the loop body does to the parsed summary, and what   *)
(* a run that returns has written                                          *)
(***************************************************************************)
\* The fields that neither the name of the DOM nor the items of the DOM
\* stand for.
ParsedFields ==
    {"order_no", "url", "date_str", "payment_last4", "subtotal", "discount", "delivery",
     "taxes", "total"}

\* The loop body holds the summary of the order at hand.
SummaryAtHand == fo_pc \in {"items", "txt", "html"}

\* order_summary against what parse_order_page returned for the page.
EnrichedFrom(parsed, order_summary) ==
    /\ \A f \in ParsedFields : order_summary[f] = parsed[f]
    /\ NonPositive(order_summary.discount)
    /\ parsed.name # <<>> => order_summary.name = parsed.name
    /\ parsed.name = <<>> => order_summary.name \in DomNames
    /\ fo_pc = "items" => order_summary.items = parsed.items
    /\ order_summary.items \in ItemLists

\* C25: from parse_order_page to the file, the summary of the order at hand
\* differs from what parse_order_page returned in its name, and only when
\* the parsed name is empty, and, after the item merge, in its items; order
\* number, url, date, payment and the five amounts are those parsed, the
\* discount is <= 0, and <id>.txt is written from that summary.
C25_CopyUpdate ==
    SummaryAtHand =>
        /\ EnrichedFrom(parse_order_page(fo_html, OrderNo, OrderUrl(OrderNo)), fo_summary)
        /\ fo_pc = "html" => write_order_files(fo_summary) \in fo_files

\* The page printed John and a discount, and the DOM gave an item: the file
\* is written with John, -0.76 and the item.
C25_Witness ==
    /\ fo_pc = "html"
    /\ fo_html = H_order
    /\ fo_summary.name = <<"J", "o", "h", "n">>
    /\ fo_summary.discount = Finite(TRUE, 76, -2)
    /\ fo_summary.items # <<>>
    /\ write_order_files(fo_summary) \in fo_files

\* The checks of the loop body that may prompt the operator, and the state
\* in which input() waits after each.
GateChecks == {"robot", "login", "wait"}
PromptOf(step) ==
    CASE step = "robot" -> "robot_input"
      [] step = "login" -> "login_input"
      [] step = "wait" -> "wait_input"

\* Where the log holds the event of `step` for the k-th identifier.
Occurrences(step, k) == {p \in 1..Len(fo_log) : fo_log[p] = Event(step, k)}

\* input() waits only right after a check of the identifier at hand, and no
\* check runs twice for an identifier: the operator is prompted at most once
\* per check, and a gate is not checked again after the prompt.
PromptedOncePerCheck ==
    /\ \A step \in GateChecks :
          /\ \A k \in 1..Len(fo_order_numbers) : Cardinality(Occurrences(step, k)) <= 1
          /\ fo_pc = PromptOf(step) =>
                 fo_log # <<>> /\ fo_log[Len(fo_log)] = Event(step, fo_idx)

\* The paths of the two files of the k-th identifier.
PathsOf(k) == {fo_order_numbers[k] \o L_txt, fo_order_numbers[k] \o L_html}

\* The identifiers whose navigation succeeded.
Navigated == {k \in 1..Len(fo_order_numbers) : Logged("goto", k) /\ ~Logged("nav_error", k)}

\* The summary of a page that prints nothing of an order.
DefaultedSummary(order_summary) ==
    /\ order_summary.date_str = <<>>
    /\ order_summary.payment_last4 = L_not_available
    /\ \A f \in {"subtotal", "discount", "delivery", "taxes", "total"} : order_summary[f] = Zero

\* C26: when fetch_orders returns, every identifier was navigated to, and
\* the files written are <id>.txt and <id>.html of exactly the identifiers
\* whose navigation succeeded, whatever the gate checks found; the operator
\* is prompted at most once for each of the three checks of an identifier,
\* no check is repeated after its prompt, and the page of a gate that is
\* still there is parsed to a summary of defaults.
C26_FilesOfNavigated ==
    /\ PromptedOncePerCheck
    /\ (SummaryAtHand /\ fo_html = H_sign_in) => DefaultedSummary(fo_summary)
    /\ fo_pc = "done" =>
           /\ \A k \in 1..Len(fo_order_numbers) : Logged("goto", k)
           /\ {f.path : f \in fo_files} = UNION {PathsOf(k) : k \in Navigated}
           /\ \A k \in Navigated : \E f \in fo_files : f.path = fo_order_numbers[k] \o L_txt
           /\ \A k \in Navigated : \E f \in fo_files : f.path = fo_order_numbers[k] \o L_html

\* The navigation to the first identifier failed and the second showed the
\* sign-in page to the end: the run returns with 7.html holding that page and
\* 7.txt holding defaults, and nothing for the first identifier.
C26_Witness ==
    /\ fo_pc = "done"
    /\ fo_order_numbers = <<A_order_no, N_seven>>
    /\ Navigated = {2}
    /\ fo_files =
           { HtmlFile(N_seven, H_sign_in),
             write_order_files([NoSummary EXCEPT !.order_no = N_seven,
                                                 !.url = OrderUrl(N_seven),
                                                 !.payment_last4 = L_not_available]) }

(***************************************************************************)
(* SpecPeriod: _parse_period of the importer and of the reference on every *)
(* period of at most MaxPeriodTokens pieces                                *)
(***************************************************************************)
MaxPeriodTokens == 4

PeriodTokens ==
    { <<"2", "0", "2", "5">>,
      <<"0", "0", "0", "0">>,
      <<"9", "9", "9", "9">>,
      <<"-">>,
      <<"1">>,
      <<"1", "2">>,
      <<"1", "3">>,
      <<"0", "0">>,
      <<" ">>,
      <<"x">> }

InitPeriod ==
    /\ pp_period \in {Concat(ts) : ts \in TokenSeqs(PeriodTokens, MaxPeriodTokens)}
    /\ pp_pc = "start"
    /\ pp_result = NoPeriod
    /\ pp_reference = NoPeriod
    /\ MoneyIdle /\ ParseIdle /\ DecodeIdle /\ UnwrapIdle /\ ExtractIdle /\ WriteIdle /\ FetchIdle
    /\ PipelineIdle

\* The two implementations are called with the same period.
CallParsePeriod ==
    /\ pp_pc = "start"
    /\ pp_result' = parse_period(pp_period)
    /\ pp_reference' = reference_parse_period(pp_period)
    /\ pp_pc' = "done"
    /\ UNCHANGED <<pp_period, moneyVars, parseVars, decodeVars, unwrapVars, extractVars,
                 writeVars, fetchVars, pipelineVars>>

NextPeriod == CallParsePeriod

SpecPeriod == InitPeriod /\ [][NextPeriod]_vars

PeriodDone == pp_pc = "done"

\* A month before another.
MonthBefore(a, b) == a[1] < b[1] \/ (a[1] = b[1] /\ a[2] < b[2])

\* The month after <<year, month>>.
MonthAfter(a) == IF a[2] = 12 THEN <<a[1] + 1, 1>> ELSE <<a[1], a[2] + 1>>

\* The period s, trimmed, is four digits, a hyphen and a month of one or two
\* digits in 1..12.
ValidPeriod(s) == PeriodMatches(s) /\ NatOf(SubSeq(s, 6, Len(s))) \in 1..12

\* What the claim asks of the result for the trimmed period s.
PeriodResult(s, result) ==
    IF ValidPeriod(s)
    THEN /\ result.kind = "ok"
         /\ result.start = <<NatOf(SubSeq(s, 1, 4)), NatOf(SubSeq(s, 6, Len(s)))>>
         /\ result.end = MonthAfter(result.start)
         /\ MonthBefore(result.start, result.end)
    ELSE result.kind = "none"

\* C28: for every period _parse_period returns without raising: None when
\* the trimmed period is not four digits, a hyphen and one or two digits or
\* its month is outside 1..12, else the first day of the month and the first
\* day of the month after it; and the reference returns the same.
C28_ReturnsForEveryPeriod ==
    PeriodDone =>
        /\ PeriodResult(Strip(pp_period), pp_result)
        /\ pp_reference = pp_result

====
